---------------------------- MODULE Spec2Model ----------------------------
(***************************************************************************)
(* A model of docscrawler: the URL storage (tUrlStorage), the link         *)
(* harvester (harv) and the engine's phases (tEngine.crawl, analyser).     *)
(*                                                                         *)
(* SpecRegistry runs concurrent callers of tUrlStorage.add / use with the  *)
(* storage's mutex modelled explicitly, and a caller of getAllUrls, check  *)
(* and count.  Spec runs tEngine.run on small web sites; there the storage *)
(* operations are single steps, which is what the mutex of SpecRegistry    *)
(* provides.  SpecLive is Spec with the fairness of the Go scheduler.      *)
(* SpecConfig runs main on command lines that newEngine refuses.           *)
(***************************************************************************)
EXTENDS Integers, Sequences, FiniteSets, TLC

VARIABLES
    urlStorage,     \* tUrlStorage: [urlStatus, urlObjects, queue]
    mu,             \* tUrlStorage.mu: [w: writers holding it, r: readers holding it]
    caller,         \* SpecRegistry: each calling goroutine's position and locals
    ret,            \* SpecRegistry: each caller's last return value
    submitted,      \* history: keys of the URLs whose add call has started
    dispatched,     \* history: key -> number of times use has returned it
    engine,         \* tEngine: [url, paramax, docTypes, docStorage, outputFileName]
    main,           \* the goroutine running main and tEngine.run: [pc, todo, urlBase,
                    \* snapshot, isFirst, emitted, err, flushed]
    crawlGuard,     \* len(guard) of crawl's channel
    workers,        \* crawl's goroutines in flight: set of [u, pc, todo]
    harvCount,      \* history: key -> number of harv invocations for that URL
    fetched,        \* history: keys of the pages harv has fetched with status 200
    analyserGuard,  \* len(guard) of analyser's channel
    analysers,      \* analyser's goroutines: set of [u, pc, t]
    mutex,          \* tEngine.mutex: the set of goroutines holding it
    doCount,        \* history: key -> number of Researcher.Do calls for that URL
    analysis,       \* history of analyser: [examined, doLog, writes]
    out,            \* what output has written to its writer (bufout)
    call            \* SpecCalls: one call of a function of the program: [fn, pc, ...]

vars == <<urlStorage, mu, caller, ret, submitted, dispatched, engine, main,
          crawlGuard, workers, harvCount, fetched, analyserGuard, analysers,
          mutex, doCount, analysis, out, call>>

registryVars == <<urlStorage, mu, caller, ret, submitted, dispatched>>
clientVars == <<mu, caller, ret, submitted>>
engineVars == <<engine, main, crawlGuard, workers, harvCount, fetched,
                analyserGuard, analysers, mutex, doCount, analysis, out>>

-----------------------------------------------------------------------------
(* Bounds *)

\* Largest concurrency ceiling (opts.Paramax) tried.
MaxParamax == 2
\* Number of goroutines calling the storage concurrently in SpecRegistry.
NumCallers == 2

-----------------------------------------------------------------------------
(* URLs: net/url.URL reduced to the components the program reads *)

Url(scheme, hostname, port, path, query, fragment) ==
    [Scheme |-> scheme, Opaque |-> "", Hostname |-> hostname, Port |-> port,
     Path |-> path, RawQuery |-> query, Fragment |-> fragment]

\* u.String(): [scheme:][opaque | [//host[:port]]path][?query][#fragment]
String(u) ==
    LET head ==
            IF u.Opaque # "" THEN (IF u.Scheme = "" THEN "" ELSE u.Scheme \o ":") \o u.Opaque
            ELSE IF u.Hostname # ""
            THEN (IF u.Scheme = "" THEN "//" ELSE u.Scheme \o "://")
                     \o (IF u.Port = "" THEN u.Hostname ELSE u.Hostname \o ":" \o u.Port)
                     \o (IF u.Path # "" /\ SubSeq(u.Path, 1, 1) # "/" THEN "/" \o u.Path
                         ELSE u.Path)
            ELSE IF u.Scheme = "" THEN u.Path
            ELSE IF u.Path = ""
            THEN u.Scheme \o ":" \o (IF u.Port = "" THEN "" ELSE ":" \o u.Port)
            ELSE u.Scheme \o "://" \o (IF u.Port = "" THEN "" ELSE ":" \o u.Port) \o u.Path
    IN
    IF u.RawQuery = "" /\ u.Fragment = "" THEN head
    ELSE head \o (IF u.RawQuery = "" THEN "" ELSE "?" \o u.RawQuery)
              \o (IF u.Fragment = "" THEN "" ELSE "#" \o u.Fragment)

\* u.Hostname(): the host without its port
Hostname(u) == u.Hostname

isValidScheme(u) == u.Scheme = "http" \/ u.Scheme = "https"

\* strings.HasSuffix
HasSuffix(s, suffix) ==
    /\ Len(suffix) <= Len(s)
    /\ SubSeq(s, Len(s) - Len(suffix) + 1, Len(s)) = suffix

\* strings.HasPrefix
HasPrefix(s, prefix) == Len(prefix) <= Len(s) /\ SubSeq(s, 1, Len(prefix)) = prefix

\* the indices from which c occurs in s
Indices[s \in STRING, c \in STRING] ==
    {i \in 1..(Len(s) - Len(c) + 1) : SubSeq(s, i, i + Len(c) - 1) = c}

\* strings.Index + 1: the least index from which c occurs in s, 0 if there is none
IndexOf(s, c) ==
    LET idx == Indices[s, c] IN
    IF idx = {} THEN 0 ELSE CHOOSE i \in idx : \A j \in idx : i <= j

\* strings.LastIndex + 1: the greatest index from which c occurs in s, 0 if there is none
LastIndexOf(s, c) ==
    LET idx == Indices[s, c] IN
    IF idx = {} THEN 0 ELSE CHOOSE i \in idx : \A j \in idx : j <= i

\* the string before the first c, and the string from the first c on ("" if none)
Before(s, c) == LET i == IndexOf(s, c) IN IF i = 0 THEN s ELSE SubSeq(s, 1, i - 1)
From(s, c) == LET i == IndexOf(s, c) IN IF i = 0 THEN "" ELSE SubSeq(s, i, Len(s))
After(s, c) == LET i == IndexOf(s, c) IN IF i = 0 THEN "" ELSE SubSeq(s, i + Len(c), Len(s))

UpperCase == "ABCDEFGHIJKLMNOPQRSTUVWXYZ"
LowerCase == "abcdefghijklmnopqrstuvwxyz"
Digits == "0123456789"

\* the bytes of a scheme: letters, and after the first byte digits, "+", "-", "."
Letters == {SubSeq(UpperCase \o LowerCase, i, i) : i \in 1..52}
DigitBytes == {SubSeq(Digits, i, i) : i \in 1..10}

\* unicode.ToLower on the ASCII upper-case letters
LowerOf == [i \in 1..26 |-> SubSeq(LowerCase, i, i)]
UpperBytes == {SubSeq(UpperCase, i, i) : i \in 1..26}

\* strings.ToLower on ASCII
ToLower[s \in STRING] ==
    IF s = "" THEN ""
    ELSE LET c == SubSeq(s, 1, 1) IN
         (IF c \in UpperBytes THEN LowerOf[IndexOf(UpperCase, c)] ELSE c)
             \o ToLower[SubSeq(s, 2, Len(s))]

\* net/url getScheme, its loop from the byte i on: [ok, scheme, rest].  The
\* scheme is the letters (after the first one also digits, "+", "-", ".") before
\* the first ":"; any other byte before a ":" means there is no scheme; a ":"
\* at the start is an error
getScheme[rawURL \in STRING, i \in Nat] ==
    LET c == SubSeq(rawURL, i, i) IN
    IF i > Len(rawURL) THEN [ok |-> TRUE, scheme |-> "", rest |-> rawURL]
    ELSE IF c \in Letters THEN getScheme[rawURL, i + 1]
    ELSE IF c \in DigitBytes \cup {"+", "-", "."}
    THEN IF i = 1 THEN [ok |-> TRUE, scheme |-> "", rest |-> rawURL]
         ELSE getScheme[rawURL, i + 1]
    ELSE IF c # ":" THEN [ok |-> TRUE, scheme |-> "", rest |-> rawURL]
    ELSE IF i = 1 THEN [ok |-> FALSE, scheme |-> "", rest |-> ""]
    ELSE [ok |-> TRUE, scheme |-> SubSeq(rawURL, 1, i - 1),
          rest |-> SubSeq(rawURL, i + 1, Len(rawURL))]

\* net/url validOptionalPort: digits only
validPort(port) == \A i \in 1..Len(port) : SubSeq(port, i, i) \in DigitBytes

\* a nil *url.URL
NoUrl == Url("", "", "", "", "", "")

\* net/url parseAuthority and parseHost: [ok, host, port]; the port must be digits
parseAuthority[authority \in STRING] ==
    [ok |-> validPort(After(authority, ":")),
     host |-> Before(authority, ":"), port |-> After(authority, ":")]

\* net/url parse, after the scheme and the query are cut off: [ok, url].
\* scheme:rest with rest not starting with "/" is opaque; without a scheme a ":"
\* in the first path segment is an error; "//" starts the authority
parseRest[scheme \in STRING, rest \in STRING, query \in STRING, frag \in STRING] ==
    IF ~HasPrefix(rest, "/") /\ scheme # ""
    THEN [ok |-> TRUE, url |-> [Url(scheme, "", "", "", query, frag) EXCEPT !.Opaque = rest]]
    ELSE IF ~HasPrefix(rest, "/") /\ IndexOf(Before(rest, "/"), ":") # 0
    THEN [ok |-> FALSE, url |-> NoUrl]
    ELSE IF HasPrefix(rest, "//") /\ (scheme # "" \/ ~HasPrefix(rest, "///"))
    THEN LET a == parseAuthority[Before(SubSeq(rest, 3, Len(rest)), "/")] IN
         IF a.ok
         THEN [ok |-> TRUE,
               url |-> Url(scheme, a.host, a.port,
                           From(SubSeq(rest, 3, Len(rest)), "/"), query, frag)]
         ELSE [ok |-> FALSE, url |-> NoUrl]
    ELSE [ok |-> TRUE, url |-> Url(scheme, "", "", rest, query, frag)]

\* net/url parse: [ok, url]; the scheme is lower-cased, the query is cut at the
\* first "?"
parse[rawURL \in STRING, frag \in STRING] ==
    LET s == getScheme[rawURL, 1] IN
    IF ~s.ok THEN [ok |-> FALSE, url |-> NoUrl]
    ELSE parseRest[ToLower[s.scheme], Before(s.rest, "?"), After(s.rest, "?"), frag]

\* url.Parse: [ok, url], for strings without control bytes, "%", "@", "[" and
\* without a "?" that ends the string.  The fragment is cut at the first "#"
Parse(rawURL) == parse[Before(rawURL, "#"), After(rawURL, "#")]

\* net/url resolvePath, the loop that removes the dot segments: dst is what has
\* been written after the initial "/", first whether nothing has been written
removeDots[remaining \in STRING, dst \in STRING, first \in BOOLEAN] ==
    LET elem == Before(remaining, "/")
        found == IndexOf(remaining, "/") # 0
        rest == After(remaining, "/")
        cut == LastIndexOf(dst, "/")
        dst2 == CASE elem = "."  -> dst
                  [] elem = ".." -> IF cut = 0 THEN "" ELSE SubSeq(dst, 1, cut - 1)
                  [] OTHER       -> dst \o (IF first THEN "" ELSE "/") \o elem
        first2 == CASE elem = "."  -> FALSE
                    [] elem = ".." -> IF cut = 0 THEN TRUE ELSE first
                    [] OTHER       -> FALSE
    IN
    IF found THEN removeDots[rest, dst2, first2]
    ELSE IF elem \in {".", ".."} THEN dst2 \o "/" ELSE dst2

\* a resolvePath that appends a relative reference to the whole base path
resolvePathKeepsLast(base, ref) ==
    LET full == IF ref = "" THEN base
                ELSE IF SubSeq(ref, 1, 1) # "/" THEN base \o "/" \o ref
                ELSE ref
        r == "/" \o removeDots[full, "", TRUE]
    IN
    IF full = "" THEN ""
    ELSE IF Len(r) > 1 /\ SubSeq(r, 2, 2) = "/" THEN SubSeq(r, 2, Len(r)) ELSE r

\* net/url resolvePath: ref against base (RFC 3986, 5.2), dot segments removed
resolvePath(base, ref) ==
    LET full == IF ref = "" THEN base
                ELSE IF SubSeq(ref, 1, 1) # "/"
                THEN SubSeq(base, 1, LastIndexOf(base, "/")) \o ref
                ELSE ref
        r == "/" \o removeDots[full, "", TRUE]
    IN
    IF full = "" THEN ""
    ELSE IF Len(r) > 1 /\ SubSeq(r, 2, 2) = "/" THEN SubSeq(r, 2, Len(r)) ELSE r

\* the values of a url.URL
Urls ==
    [Scheme : STRING, Opaque : STRING, Hostname : STRING, Port : STRING,
     Path : STRING, RawQuery : STRING, Fragment : STRING]

\* (*URL).ResolveReference: a reference with a scheme or a host keeps its own
\* parts, its path without dot segments; an opaque one is returned as it is; an
\* empty one takes the base's query (and fragment); the others take the base's
\* host and resolve their path against the base's
ResolveReference[u \in Urls, ref \in Urls] ==
    LET scheme == IF ref.Scheme = "" THEN u.Scheme ELSE ref.Scheme IN
    IF ref.Scheme # "" \/ ref.Hostname # ""
    THEN [ref EXCEPT !.Scheme = scheme, !.Path = resolvePath(ref.Path, "")]
    ELSE IF ref.Opaque # ""
    THEN [ref EXCEPT !.Scheme = scheme, !.Hostname = "", !.Port = "", !.Path = ""]
    ELSE LET empty == ref.Path = "" /\ ref.RawQuery = "" IN
         IF ref.Path = "" /\ u.Opaque # ""
         THEN [ref EXCEPT !.Scheme = scheme, !.Opaque = u.Opaque,
                          !.Hostname = "", !.Port = "", !.Path = "",
                          !.RawQuery = IF empty THEN u.RawQuery ELSE @,
                          !.Fragment = IF empty /\ @ = "" THEN u.Fragment ELSE @]
         ELSE [ref EXCEPT !.Scheme = scheme,
                          !.Hostname = u.Hostname, !.Port = u.Port,
                          !.Path = resolvePath(u.Path, ref.Path),
                          !.RawQuery = IF empty THEN u.RawQuery ELSE @,
                          !.Fragment = IF empty /\ @ = "" THEN u.Fragment ELSE @]

-----------------------------------------------------------------------------
(* tUrlStorage *)

newUrlStorage ==
    [urlStatus  |-> [k \in {} |-> FALSE],
     urlObjects |-> [k \in {} |-> NoUrl],
     queue      |-> <<>>]

\* an add that takes an acquired entry for a new one
ExistsUnused(us, key) == key \in DOMAIN us.urlStatus /\ ~us.urlStatus[key]

\* add without its duplicate test
ExistsNever(us, key) == FALSE

\* add, line 39: the key is already in urlStatus
Exists(us, key) == key \in DOMAIN us.urlStatus

\* an add that stores the entry as used
InsertUsed(us, u) ==
    LET key == String(u) IN
    [urlStatus  |-> [k \in DOMAIN us.urlStatus \cup {key} |->
                        IF k = key THEN TRUE ELSE us.urlStatus[k]],
     urlObjects |-> [k \in DOMAIN us.urlObjects \cup {key} |->
                        IF k = key THEN u ELSE us.urlObjects[k]],
     queue      |-> Append(us.queue, key)]

\* add, lines 44-47: store the copy, mark unused, append to the queue
Insert(us, u) ==
    LET key == String(u) IN
    [urlStatus  |-> [k \in DOMAIN us.urlStatus \cup {key} |->
                        IF k = key THEN FALSE ELSE us.urlStatus[k]],
     urlObjects |-> [k \in DOMAIN us.urlObjects \cup {key} |->
                        IF k = key THEN u ELSE us.urlObjects[k]],
     queue      |-> Append(us.queue, key)]

\* use, lines 59-62: the first index of the queue whose key is unused, 0 if none
FirstUnused(us) ==
    LET idx == {i \in 1..Len(us.queue) :
                   /\ us.queue[i] \in DOMAIN us.urlStatus
                   /\ ~us.urlStatus[us.queue[i]]}
    IN  IF idx = {} THEN 0 ELSE CHOOSE i \in idx : \A j \in idx : i <= j

\* a use that cuts the queue and leaves the status as it was
MarkUsedKeepsStatus(us, i, key) ==
    LET n == Len(us.queue) IN
    [us EXCEPT
        !.queue = [j \in 1..(n - 1) |-> IF j = i THEN us.queue[n] ELSE us.queue[j]]]

\* a use that cuts the last element of the queue without moving it into slot i
MarkUsedCutsLast(us, i, key) ==
    LET n == Len(us.queue) IN
    [us EXCEPT
        !.urlStatus = [k \in DOMAIN us.urlStatus \cup {key} |->
                          IF k = key THEN TRUE ELSE us.urlStatus[k]],
        !.queue = SubSeq(us.queue, 1, n - 1)]

\* use, lines 64-68: mark the key used, move the last queue element into slot i
\* and cut the queue by one
MarkUsed(us, i, key) ==
    LET n == Len(us.queue) IN
    [us EXCEPT
        !.urlStatus = [k \in DOMAIN us.urlStatus \cup {key} |->
                          IF k = key THEN TRUE ELSE us.urlStatus[k]],
        !.queue = [j \in 1..(n - 1) |-> IF j = i THEN us.queue[n] ELSE us.queue[j]]]

\* add as one step (the body runs under us.mu): the storage after add(u)
Add(us, u) == IF Exists(us, String(u)) THEN us ELSE Insert(us, u)

\* use as one step (the body runs under us.mu): [us, url, ok]
Use(us) ==
    LET i == FirstUnused(us) IN
    IF i = 0
    THEN [us |-> us, url |-> NoUrl, ok |-> FALSE]
    ELSE [us |-> MarkUsed(us, i, us.queue[i]),
          url |-> us.urlObjects[us.queue[i]], ok |-> TRUE]

\* a getAllUrls that leaves the acquired entries out
getUnusedUrls(us) ==
    {us.urlObjects[k] : k \in {j \in DOMAIN us.urlObjects : ~us.urlStatus[j]}}

\* a getAllUrls that returns the acquired entries only
getUsedUrls(us) ==
    {us.urlObjects[k] : k \in {j \in DOMAIN us.urlObjects : us.urlStatus[j]}}

\* getAllUrls: the stored URL objects (map iteration: no order)
getAllUrls(us) == {us.urlObjects[k] : k \in DOMAIN us.urlObjects}

\* a count that counts the unused entries
countUnused(us) ==
    [total |-> Cardinality(DOMAIN us.urlStatus),
     used  |-> Cardinality({k \in DOMAIN us.urlStatus : ~us.urlStatus[k]})]

\* count: (total, used)
count(us) ==
    [total |-> Cardinality(DOMAIN us.urlStatus),
     used  |-> Cardinality({k \in DOMAIN us.urlStatus : us.urlStatus[k]})]

\* the keys whose status is unused
Unused(us) == {k \in DOMAIN us.urlStatus : ~us.urlStatus[k]}

\* check: (exists, used); (false, false) for nil and for a key that is not stored
check(us, u) ==
    IF u = NoUrl THEN [exists |-> FALSE, used |-> FALSE]
    ELSE [exists |-> String(u) \in DOMAIN us.urlStatus,
          used   |-> String(u) \in DOMAIN us.urlStatus /\ us.urlStatus[String(u)]]


-----------------------------------------------------------------------------
(* sync.RWMutex and sync.Mutex *)

\* a Lock that excludes nobody
CanLockUnguarded(m) == TRUE

\* us.mu.Lock() can return: nobody holds the lock
CanLock(m) == m.w = {} /\ m.r = {}

\* us.mu.Lock() by goroutine c
Lock(m, c) == [m EXCEPT !.w = @ \cup {c}]

\* the deferred us.mu.Unlock() of goroutine c
Unlock(m, c) == [m EXCEPT !.w = @ \ {c}]

-----------------------------------------------------------------------------
(* SpecRegistry: goroutines calling add and use concurrently, as in        *)
(* TestUrlStorage_Add_Concurrency and TestUrlStorage_Use_Concurrency       *)

Callers == 1..NumCallers

\* the URLs the callers submit
TestUrls ==
    {Url("http", "example.com", "", "/concurrent/0", "", ""),
     Url("http", "example.com", "", "/concurrent/1", "", ""),
     Url("http", "example.com", "", "/concurrent/2", "", "")}

Idle == [pc |-> "idle", u |-> NoUrl, i |-> 0, key |-> ""]
NoRet == [op |-> "none", ok |-> FALSE, key |-> "", pending |-> 0]

Bump(f, k) ==
    [x \in DOMAIN f \cup {k} |->
        IF x = k THEN (IF k \in DOMAIN f THEN f[k] + 1 ELSE 1) ELSE f[x]]

InitRegistryVars ==
    /\ urlStorage = newUrlStorage
    /\ mu = [w |-> {}, r |-> {}]
    /\ caller = [c \in Callers |-> Idle]
    /\ ret = [c \in Callers |-> NoRet]
    /\ submitted = {}
    /\ dispatched = [k \in {} |-> 0]

\* add, lines 28-36: a non-nil URL; take the lock and compute the key
AddCall(c, u) ==
    /\ caller[c].pc = "idle"
    /\ CanLock(mu)
    /\ mu' = Lock(mu, c)
    /\ caller' = [caller EXCEPT ![c] = [pc |-> "add_check", u |-> u, i |-> 0,
                                        key |-> String(u)]]
    /\ submitted' = submitted \cup {String(u)}
    /\ UNCHANGED <<urlStorage, ret, dispatched>>
    /\ UNCHANGED <<call, engineVars>>

\* add, lines 39-41: return false for a key that exists
AddCheck(c) ==
    /\ caller[c].pc = "add_check"
    /\ IF Exists(urlStorage, caller[c].key)
       THEN /\ caller' = [caller EXCEPT ![c] = Idle]
            /\ ret' = [ret EXCEPT ![c] = [op |-> "add", ok |-> FALSE,
                                          key |-> caller[c].key, pending |-> 0]]
            /\ mu' = Unlock(mu, c)
       ELSE /\ caller' = [caller EXCEPT ![c].pc = "add_insert"]
            /\ UNCHANGED <<ret, mu>>
    /\ UNCHANGED <<urlStorage, submitted, dispatched>>
    /\ UNCHANGED <<call, engineVars>>

\* add, lines 44-49: insert, return true
AddInsert(c) ==
    /\ caller[c].pc = "add_insert"
    /\ urlStorage' = Insert(urlStorage, caller[c].u)
    /\ caller' = [caller EXCEPT ![c] = Idle]
    /\ ret' = [ret EXCEPT ![c] = [op |-> "add", ok |-> TRUE,
                                  key |-> caller[c].key, pending |-> 0]]
    /\ mu' = Unlock(mu, c)
    /\ UNCHANGED <<submitted, dispatched>>
    /\ UNCHANGED <<call, engineVars>>

\* use, line 55: take the lock
UseCall(c) ==
    /\ caller[c].pc = "idle"
    /\ CanLock(mu)
    /\ mu' = Lock(mu, c)
    /\ caller' = [caller EXCEPT ![c] = [pc |-> "use_scan", u |-> NoUrl, i |-> 0,
                                        key |-> ""]]
    /\ UNCHANGED <<urlStorage, ret, submitted, dispatched>>
    /\ UNCHANGED <<call, engineVars>>

\* use, lines 59-62 and 74: scan the queue for an unused key; nil, false if none
UseScan(c) ==
    /\ caller[c].pc = "use_scan"
    /\ LET i == FirstUnused(urlStorage) IN
       IF i = 0
       THEN /\ caller' = [caller EXCEPT ![c] = Idle]
            /\ ret' = [ret EXCEPT ![c] =
                          [op |-> "use", ok |-> FALSE, key |-> "",
                           pending |-> Cardinality(Unused(urlStorage))]]
            /\ mu' = Unlock(mu, c)
       ELSE /\ caller' = [caller EXCEPT ![c] =
                             [pc |-> "use_mark", u |-> NoUrl, i |-> i,
                              key |-> urlStorage.queue[i]]]
            /\ UNCHANGED <<ret, mu>>
    /\ UNCHANGED <<urlStorage, submitted, dispatched>>
    /\ UNCHANGED <<call, engineVars>>

\* use, lines 64-70: mark used, remove from the queue, return the URL
UseMark(c) ==
    /\ caller[c].pc = "use_mark"
    /\ urlStorage' = MarkUsed(urlStorage, caller[c].i, caller[c].key)
    /\ caller' = [caller EXCEPT ![c] = Idle]
    /\ ret' = [ret EXCEPT ![c] =
                  [op |-> "use", ok |-> TRUE,
                   key |-> String(urlStorage.urlObjects[caller[c].key]),
                   pending |-> Cardinality(Unused(urlStorage))]]
    /\ dispatched' = Bump(dispatched, caller[c].key)
    /\ mu' = Unlock(mu, c)
    /\ UNCHANGED submitted
    /\ UNCHANGED <<call, engineVars>>

\* an RLock that does not wait for the writer
CanRLockAlways(m) == TRUE

\* us.mu.RLock() can return: no writer holds the lock
CanRLock(m) == m.w = {}

\* the goroutine that also calls the read-only operations and add(nil), at any
\* moment between the steps of the others
Readers == {c \in Callers : \A d \in Callers : c <= d}

\* add, lines 29-31: a nil URL; false, without the lock
AddNil(c) ==
    /\ caller[c].pc = "idle"
    /\ ret' = [ret EXCEPT ![c] = [op |-> "add", ok |-> FALSE, key |-> "", pending |-> 0]]
    /\ UNCHANGED <<urlStorage, mu, caller, submitted, dispatched>>
    /\ UNCHANGED <<call, engineVars>>

\* getAllUrls under the read lock, which no writer interrupts
GetAllUrlsCall(c) ==
    /\ caller[c].pc = "idle"
    /\ CanRLock(mu)
    /\ ret' = [ret EXCEPT ![c] = [op |-> "all", ok |-> TRUE, key |-> "", pending |-> 0,
                                  val |-> getAllUrls(urlStorage)]]
    /\ UNCHANGED <<urlStorage, mu, caller, submitted, dispatched>>
    /\ UNCHANGED <<call, engineVars>>

\* check under the read lock; a nil URL returns before the lock
CheckCall(c, u) ==
    /\ caller[c].pc = "idle"
    /\ u = NoUrl \/ CanRLock(mu)
    /\ ret' = [ret EXCEPT ![c] = [op |-> "check", ok |-> TRUE,
                                  key |-> IF u = NoUrl THEN "" ELSE String(u),
                                  pending |-> 0, val |-> check(urlStorage, u)]]
    /\ UNCHANGED <<urlStorage, mu, caller, submitted, dispatched>>
    /\ UNCHANGED <<call, engineVars>>

\* count under the read lock
CountCall(c) ==
    /\ caller[c].pc = "idle"
    /\ CanRLock(mu)
    /\ ret' = [ret EXCEPT ![c] = [op |-> "count", ok |-> TRUE, key |-> "", pending |-> 0,
                                  val |-> count(urlStorage)]]
    /\ UNCHANGED <<urlStorage, mu, caller, submitted, dispatched>>
    /\ UNCHANGED <<call, engineVars>>

-----------------------------------------------------------------------------
(* The web the crawler runs against, and harv *)

\* an anchor's href: absolute, root-relative ("/x"), relative ("x") or unparsable
AbsHref(u) == String(u)
RootHref(path) == path
RelHref(path) == path
BadHref == "://invalid.url"

\* resolveUrl: [ok, url]; an error when url.Parse fails on the href or on the
\* base, base.ResolveReference(href) otherwise
resolveUrl(baseStr, href) ==
    LET u == Parse(href)
        base == Parse(baseStr)
    IN
    IF ~u.ok \/ ~base.ok THEN [ok |-> FALSE, url |-> NoUrl]
    ELSE [ok |-> TRUE, url |-> ResolveReference[base.url, u.url]]

Root   == Url("http", "site.test", "", "/", "", "")
PageA  == Url("http", "site.test", "", "/a.html", "", "")
PageB  == Url("http", "site.test", "", "/b.html", "", "")
DocPdf == Url("http", "site.test", "", "/doc.pdf", "", "")
BPdf   == Url("http", "site.test", "", "/b.pdf", "", "")
Ext    == Url("http", "other.test", "", "/x.pdf", "", "")
Ftp    == Url("ftp", "site.test", "", "/f.pdf", "", "")

\* a second site: the root links /a.html and /doc.pdf, /a.html links /b.pdf
E2eRoot == Url("http", "e2e.test", "", "/", "", "")
E2eA    == Url("http", "e2e.test", "", "/a.html", "", "")
E2eDoc  == Url("http", "e2e.test", "", "/doc.pdf", "", "")
E2eB    == Url("http", "e2e.test", "", "/b.pdf", "", "")

\* a third site: the body of the root breaks off while harv reads it
SlowRoot == Url("http", "slow.test", "", "/", "", "")
SlowOne  == Url("http", "slow.test", "", "/one.pdf", "", "")
SlowTwo  == Url("http", "slow.test", "", "/two.pdf", "", "")

\* a fourth site, with a second server on port 8080 of the same machine
PortRoot == Url("http", "port.test", "", "/", "", "")
PortAlt  == Url("http", "port.test", "8080", "/", "", "")
PortDoc  == Url("http", "port.test", "8080", "/alt.pdf", "", "")

\* the page a 404 answer links in its body
Lost == Url("http", "site.test", "", "/lost.html", "", "")

\* what a GET of the URL answers: the status, the anchors of the body in
\* document order, and whether the body parses as the document its suffix names
NotFound == [status |-> 404, hrefs |-> <<RootHref("/lost.html")>>, parses |-> FALSE]
\* the GET itself fails (http.Get knows no such scheme): there is no status
NoAnswer == [status |-> 0, hrefs |-> <<>>, parses |-> FALSE]
Page(u) ==
    CASE u = Root   -> [status |-> 200, parses |-> FALSE,
                        hrefs |-> <<RootHref("/a.html"), RelHref("doc.pdf")>>]
      [] u = PageA  -> [status |-> 200, parses |-> FALSE,
                        hrefs |-> <<RelHref("b.html"), BadHref, AbsHref(Ext), RootHref("/")>>]
      [] u = PageB  -> [status |-> 200, parses |-> FALSE,
                        hrefs |-> <<RelHref("b.pdf"), AbsHref(Ftp)>>]
      [] u = DocPdf -> [status |-> 200, parses |-> TRUE, hrefs |-> <<>>]
      [] u = Ext    -> [status |-> 200, parses |-> TRUE, hrefs |-> <<>>]
      [] u = Ftp    -> NoAnswer
      [] u = E2eRoot -> [status |-> 200, parses |-> FALSE,
                         hrefs |-> <<RootHref("/a.html"), RootHref("/doc.pdf")>>]
      [] u = E2eA   -> [status |-> 200, parses |-> FALSE,
                        hrefs |-> <<RootHref("/b.pdf")>>]
      [] u = E2eDoc -> [status |-> 200, parses |-> TRUE, hrefs |-> <<>>]
      [] u = E2eB   -> [status |-> 200, parses |-> TRUE, hrefs |-> <<>>]
      [] u = SlowRoot -> [status |-> 200, parses |-> FALSE,
                          hrefs |-> <<RootHref("/one.pdf"), RootHref("/two.pdf")>>]
      [] u = SlowOne -> NoAnswer
      [] u = PortRoot -> [status |-> 200, parses |-> FALSE,
                          hrefs |-> <<AbsHref(PortAlt)>>]
      [] u = PortAlt -> [status |-> 200, parses |-> FALSE,
                         hrefs |-> <<RelHref("alt.pdf")>>]
      [] u = PortDoc -> [status |-> 200, parses |-> TRUE, hrefs |-> <<>>]
      [] OTHER      -> NotFound

\* harv, lines 29-33: the number of anchors z.Next() yields before it yields
\* ErrorToken: all of them at the end of the body, fewer when reading the body fails
AnchorsRead(u) == IF u = SlowRoot THEN 1 ELSE Len(Page(u).hrefs)

\* a harv that walks the body whatever the status is
HarvFetchAnyStatus(u) == SubSeq(Page(u).hrefs, 1, AnchorsRead(u))

\* harv, lines 15-33: the GET; the anchors to walk, none unless the status is 200
HarvFetch(u) ==
    IF Page(u).status = 200 THEN SubSeq(Page(u).hrefs, 1, AnchorsRead(u)) ELSE <<>>

\* the URLs of the web
WebUrls ==
    {Root, PageA, PageB, DocPdf, BPdf, Ext, Ftp, E2eRoot, E2eA, E2eDoc, E2eB,
     SlowRoot, SlowOne, SlowTwo, PortRoot, PortAlt, PortDoc, Lost}

\* resolveUrl of every anchor of every page of the web against the page's URL
Links ==
    [u \in WebUrls |->
        [href \in {Page(u).hrefs[i] : i \in 1..Len(Page(u).hrefs)} |->
            resolveUrl(String(u), href)]]

\* harv, line 44: resolveUrl(baseUrl.String(), href), read from Links for the
\* anchors of the web
Resolve(baseUrl, href) ==
    IF baseUrl \in WebUrls /\ href \in DOMAIN Links[baseUrl]
    THEN Links[baseUrl][href]
    ELSE resolveUrl(String(baseUrl), href)

\* a harv that keeps the links to the page's own host only
HarvLinkSameHost(us, baseUrl, href) ==
    LET r == Resolve(baseUrl, href) IN
    IF r.ok /\ Hostname(r.url) = Hostname(baseUrl) /\ isValidScheme(r.url)
    THEN Add(us, r.url) ELSE us

\* harv, lines 41-50: resolve one href against the page's URL and add it
HarvLink(us, baseUrl, href) ==
    LET r == Resolve(baseUrl, href) IN
    IF r.ok THEN Add(us, r.url) ELSE us

-----------------------------------------------------------------------------
(* tEngine *)

\* url.ParseRequestURI for the forms "", "/path[?query]", "scheme://host[:port][/path][?query]"
\* and a string with neither a scheme nor a leading "/": [ok, url].  The string
\* is taken as it is, "#" is no delimiter; an empty string, and a string that
\* has no scheme and does not start with "/", are errors
ParseRequestURI(s) ==
    LET scheme == Before(s, ":")
        rest == After(s, ":")
        hostport == Before(After(rest, "//"), "/")
        pathquery == From(After(rest, "//"), "/")
    IN
    IF s = "" THEN [ok |-> FALSE, url |-> NoUrl]
    ELSE IF SubSeq(s, 1, 1) = "/"
    THEN [ok |-> TRUE, url |-> Url("", "", "", Before(s, "?"), After(s, "?"), "")]
    ELSE IF IndexOf(s, ":") <= 1 \/ IndexOf(scheme, "/") # 0
    THEN [ok |-> FALSE, url |-> NoUrl]
    ELSE IF SubSeq(rest, 1, 2) # "//"
    THEN [ok |-> TRUE, url |-> Url(scheme, "", "", "", "", "")]
    ELSE [ok |-> TRUE,
          url |-> Url(scheme, Before(hostport, ":"), After(hostport, ":"),
                      Before(pathquery, "?"), After(pathquery, "?"), "")]

\* the document types the researchers package registers
allFileTypes == {"pdf", "docx", "xlsx", "pptx"}

\* a validation that accepts every token
IsAnything(st) == TRUE

\* researchers.Is
Is(st) == st \in allFileTypes

\* the command lines tried: the start URL, the document types, the output file
\* ("": stdout), the ceiling
Opts ==
    [Site : {String(Root)}, Type : {<<"docx", "pdf", "pdf">>, <<"docx">>},
     Output : {""}, Paramax : 1..MaxParamax]
    \cup [Site : {String(PageB), String(E2eRoot)}, Type : {<<"pdf">>},
          Output : {""}, Paramax : 1..MaxParamax]
    \cup [Site : {String(PageB), String(SlowRoot)}, Type : {<<"pdf">>},
          Output : {"out.json"}, Paramax : {1}]
    \cup [Site : {String(PortRoot)}, Type : {<<"pdf">>},
          Output : {""}, Paramax : {1}]

\* command lines newEngine refuses, and one it accepts
OptsConfig ==
    [Site : {String(E2eRoot), "", "site.test"},
     Type : {<<"pdf">>, <<"pdf", "txt">>},
     Output : {"out.json"}, Paramax : {MaxParamax}]
    \cup [Site : {String(E2eRoot)}, Type : {<<"pdf">>},
          Output : {"out.json"}, Paramax : {0, -1}]

\* a nil *tEngine
NilEngine ==
    [url |-> NoUrl, paramax |-> 0, docTypes |-> <<>>, docStorage |-> [k \in {} |-> ""],
     outputFileName |-> ""]

\* newEngine: (engine, err); err is "" for nil
newEngine(opts) ==
    LET site == ParseRequestURI(opts.Site)
        e == [url |-> site.url, paramax |-> opts.Paramax, docTypes |-> opts.Type,
              docStorage |-> [k \in {} |-> ""], outputFileName |-> opts.Output]
    IN
    IF \E i \in 1..Len(opts.Type) : ~Is(opts.Type[i])
    THEN [engine |-> NilEngine, err |-> "unknown document format for analysis"]
    ELSE IF ~site.ok
    THEN [engine |-> e, err |-> "invalid URL"]
    ELSE [engine |-> e, err |-> ""]

\* a guard with one slot too many
CanSendOffByOne(n, capacity) == n <= capacity

\* a guard that never blocks
CanSendAlways(n, capacity) == TRUE

\* guard <- true can proceed: the channel has room
CanSend(n, capacity) == n < capacity

\* a goroutine that does not give its slot back
ReceiveNothing(n) == n

\* <-guard: one element less in the channel
Receive(n) == n - 1

\* a mutex that excludes nobody
MutexFreeAlways(m) == TRUE

\* tEngine.mutex.Lock() can return
MutexFree(m) == m = {}

\* a filter that looks at the scheme only
ExpandsAnyHost(e, u) == isValidScheme(u)

\* crawl, line 96: the acquired URL is expanded
Expands(e, u) == isValidScheme(u) /\ Hostname(e.url) = Hostname(u)

\* a dispatch on the URL's suffix alone, whatever types were requested
MatchTypeUnrequested(types, u) ==
    IF HasSuffix(String(u), ".pdf") THEN "pdf" ELSE ""

\* analyser, lines 127-128: the first requested type whose suffix the URL has, "" if none
MatchType(types, u) ==
    LET idx == {i \in 1..Len(types) : HasSuffix(String(u), "." \o types[i])} IN
    IF idx = {} THEN "" ELSE types[CHOOSE i \in idx : \A j \in idx : i <= j]

\* no call of SpecCalls is running
NoCall == [fn |-> "none", pc |-> "done"]

InitMain ==
    [pc |-> "crawl", todo |-> <<>>, urlBase |-> NoUrl, snapshot |-> {}, isFirst |-> TRUE,
     emitted |-> <<>>, err |-> "", flushed |-> FALSE]

\* main, lines 40-45: newEngine; log.Fatalf on an error, engine.run() otherwise
InitEngineVars(optsTried) ==
    /\ \E opts \in optsTried :
          /\ engine = newEngine(opts).engine
          /\ main = IF newEngine(opts).err = "" THEN InitMain
                    ELSE [InitMain EXCEPT !.pc = "fatal", !.err = newEngine(opts).err]
    /\ crawlGuard = 0
    /\ workers = {}
    /\ harvCount = [k \in {} |-> 0]
    /\ fetched = {}
    /\ analyserGuard = 0
    /\ analysers = {}
    /\ mutex = {}
    /\ doCount = [k \in {} |-> 0]
    /\ analysis = [examined |-> {}, doLog |-> [k \in {} |-> <<>>],
                   writes |-> [k \in {} |-> 0]]
    /\ out = ""

\* crawl, line 80: make(chan bool, engine.paramax) panics on a negative size
CrawlMakePanics ==
    /\ main.pc = "crawl"
    /\ engine.paramax < 0
    /\ main' = [main EXCEPT !.pc = "panic", !.err = "makechan: size out of range"]
    /\ UNCHANGED <<call, registryVars, engine, crawlGuard, workers, harvCount, fetched,
                   analyserGuard, analysers, mutex, doCount, analysis, out>>

\* crawl, lines 80-84, and harv, lines 15-25: make the guard, GET the start URL
CrawlHarvFetch ==
    /\ main.pc = "crawl"
    /\ engine.paramax >= 0
    /\ crawlGuard' = 0
    /\ main' = [main EXCEPT !.pc = "crawl_harv", !.todo = HarvFetch(engine.url)]
    /\ harvCount' = Bump(harvCount, String(engine.url))
    /\ fetched' = IF Page(engine.url).status = 200
                  THEN fetched \cup {String(engine.url)} ELSE fetched
    /\ UNCHANGED <<call, registryVars, engine, workers, analyserGuard, analysers, mutex, doCount, analysis, out>>

\* harv, lines 29-52, of the start URL: the next anchor
CrawlHarvLink ==
    /\ main.pc = "crawl_harv"
    /\ main.todo # <<>>
    /\ urlStorage' = HarvLink(urlStorage, engine.url, Head(main.todo))
    /\ main' = [main EXCEPT !.todo = Tail(main.todo)]
    /\ UNCHANGED <<call, clientVars, dispatched, engine, crawlGuard, workers, harvCount,
                   fetched, analyserGuard, analysers, mutex, doCount, analysis, out>>

\* harv, line 33: the end of the start page; crawl enters its loop
CrawlHarvReturn ==
    /\ main.pc = "crawl_harv"
    /\ main.todo = <<>>
    /\ main' = [main EXCEPT !.pc = "use"]
    /\ UNCHANGED <<call, registryVars, engine, crawlGuard, workers, harvCount, fetched,
                   analyserGuard, analysers, mutex, doCount, analysis, out>>

\* crawl, lines 87-96: use(), and for an acquired URL the host and scheme test
CrawlUse ==
    /\ main.pc = "use"
    /\ LET r == Use(urlStorage) IN
       /\ urlStorage' = r.us
       /\ dispatched' = IF r.ok THEN Bump(dispatched, String(r.url)) ELSE dispatched
       /\ main' = [main EXCEPT
                      !.urlBase = r.url,
                      !.pc = IF ~r.ok THEN "case1"
                             ELSE IF Expands(engine, r.url) THEN "send" ELSE "use"]
    /\ UNCHANGED <<call, clientVars, engine, crawlGuard, workers, harvCount, fetched,
                   analyserGuard, analysers, mutex, doCount, analysis, out>>

\* a crawl that returns when use() finds nothing, whatever the guard holds
CrawlCase1Early ==
    /\ main.pc = "case1"
    /\ main' = [main EXCEPT !.pc = "crawl_done"]
    /\ UNCHANGED <<call, registryVars, engine, crawlGuard, workers, harvCount, fetched,
                   analyserGuard, analysers, mutex, doCount, analysis, out>>

\* crawl, lines 89-91: !ok && len(guard) == 0: return
CrawlCase1 ==
    /\ main.pc = "case1"
    /\ main' = [main EXCEPT !.pc = IF crawlGuard = 0 THEN "crawl_done" ELSE "case2"]
    /\ UNCHANGED <<call, registryVars, engine, crawlGuard, workers, harvCount, fetched,
                   analyserGuard, analysers, mutex, doCount, analysis, out>>

\* crawl, lines 92-94: !ok && len(guard) > 0: sleep; neither case: loop
CrawlCase2 ==
    /\ main.pc = "case2"
    /\ main' = [main EXCEPT !.pc = IF crawlGuard > 0 THEN "sleep" ELSE "use"]
    /\ UNCHANGED <<call, registryVars, engine, crawlGuard, workers, harvCount, fetched,
                   analyserGuard, analysers, mutex, doCount, analysis, out>>

\* crawl, line 94: time.Sleep(crawlSleepTime) returns
CrawlSleep ==
    /\ main.pc = "sleep"
    /\ main' = [main EXCEPT !.pc = "use"]
    /\ UNCHANGED <<call, registryVars, engine, crawlGuard, workers, harvCount, fetched,
                   analyserGuard, analysers, mutex, doCount, analysis, out>>

\* crawl, lines 97-102: take a slot and start the goroutine
CrawlSpawn ==
    /\ main.pc = "send"
    /\ CanSend(crawlGuard, engine.paramax)
    /\ crawlGuard' = crawlGuard + 1
    /\ workers' = workers \cup {[u |-> main.urlBase, pc |-> "fetch", todo |-> <<>>]}
    /\ main' = [main EXCEPT !.pc = "use"]
    /\ UNCHANGED <<call, registryVars, engine, harvCount, fetched, analyserGuard,
                   analysers, mutex, doCount, analysis, out>>

\* harv in a goroutine, lines 15-25: the GET
WorkerFetch(w) ==
    /\ w.pc = "fetch"
    /\ workers' = (workers \ {w}) \cup {[w EXCEPT !.pc = "links", !.todo = HarvFetch(w.u)]}
    /\ harvCount' = Bump(harvCount, String(w.u))
    /\ fetched' = IF Page(w.u).status = 200 THEN fetched \cup {String(w.u)} ELSE fetched
    /\ UNCHANGED <<call, registryVars, engine, main, crawlGuard, analyserGuard, analysers,
                   mutex, doCount, analysis, out>>

\* a harv that gives the page up at the first href that does not resolve
WorkerLinkAbortsOnBad(w) ==
    /\ w.pc = "links"
    /\ w.todo # <<>>
    /\ urlStorage' = HarvLink(urlStorage, w.u, Head(w.todo))
    /\ workers' = (workers \ {w}) \cup
                      {[w EXCEPT !.todo = IF Resolve(w.u, Head(w.todo)).ok
                                          THEN Tail(w.todo) ELSE <<>>]}
    /\ UNCHANGED <<call, clientVars, dispatched, engine, main, crawlGuard, harvCount,
                   fetched, analyserGuard, analysers, mutex, doCount, analysis, out>>

\* harv in a goroutine, lines 29-52: the next anchor
WorkerLink(w) ==
    /\ w.pc = "links"
    /\ w.todo # <<>>
    /\ urlStorage' = HarvLink(urlStorage, w.u, Head(w.todo))
    /\ workers' = (workers \ {w}) \cup {[w EXCEPT !.todo = Tail(w.todo)]}
    /\ UNCHANGED <<call, clientVars, dispatched, engine, main, crawlGuard, harvCount,
                   fetched, analyserGuard, analysers, mutex, doCount, analysis, out>>

\* crawl, line 101: harv has returned; <-guard
WorkerRelease(w) ==
    /\ w.pc = "links"
    /\ w.todo = <<>>
    /\ crawlGuard' = Receive(crawlGuard)
    /\ workers' = workers \ {w}
    /\ UNCHANGED <<call, registryVars, engine, main, harvCount, fetched, analyserGuard,
                   analysers, mutex, doCount, analysis, out>>

CrawlMain ==
    \/ CrawlHarvFetch
    \/ CrawlHarvLink
    \/ CrawlHarvReturn
    \/ CrawlUse
    \/ CrawlCase1
    \/ CrawlCase2
    \/ CrawlSleep
    \/ CrawlSpawn

CrawlWorker ==
    \E w \in workers : WorkerFetch(w) \/ WorkerLink(w) \/ WorkerRelease(w)

-----------------------------------------------------------------------------
(* tEngine.analyser *)

\* Researcher.Do: nil for a document fetched with status 200 that parses
DoSucceeds(u) == Page(u).status = 200 /\ Page(u).parses

\* analyser, lines 112-117: a fresh guard; the snapshot of the storage
AnalyserStart ==
    /\ main.pc = "crawl_done"
    /\ analyserGuard' = 0
    /\ main' = [main EXCEPT !.pc = "analyser", !.snapshot = getAllUrls(urlStorage)]
    /\ UNCHANGED <<call, registryVars, engine, crawlGuard, workers, harvCount, fetched,
                   analysers, mutex, doCount, analysis, out>>

\* analyser, lines 117-121: the next URL of the range (in map order, which is
\* any order); take a slot, wg.Add(1), start the goroutine
AnalyserSpawn ==
    /\ main.pc = "analyser"
    /\ CanSend(analyserGuard, engine.paramax)
    /\ \E u \in main.snapshot :
          /\ main' = [main EXCEPT !.snapshot = @ \ {u}]
          /\ analysers' = analysers \cup {[u |-> u, pc |-> "lock", t |-> ""]}
    /\ analyserGuard' = analyserGuard + 1
    /\ UNCHANGED <<call, registryVars, engine, crawlGuard, workers, harvCount, fetched,
                   mutex, doCount, analysis, out>>

\* analyser, line 142: the range is over; wg.Wait()
AnalyserWait ==
    /\ main.pc = "analyser"
    /\ main.snapshot = {}
    /\ analysers = {}
    /\ main' = [main EXCEPT !.pc = "analyser_done"]
    /\ UNCHANGED <<call, registryVars, engine, crawlGuard, workers, harvCount, fetched,
                   analyserGuard, analysers, mutex, doCount, analysis, out>>

\* analyser, lines 123-130: lock the engine's mutex, find the type, call Do
AnalyserLock(a) ==
    /\ a.pc = "lock"
    /\ MutexFree(mutex)
    /\ mutex' = mutex \cup {a.u}
    /\ LET t == MatchType(engine.docTypes, a.u) IN
       /\ analysers' = (analysers \ {a}) \cup
                          {[a EXCEPT !.t = t, !.pc = IF t = "" THEN "release" ELSE "do"]}
       /\ doCount' = IF t = "" THEN doCount ELSE Bump(doCount, String(a.u))
    /\ analysis' = [analysis EXCEPT !.examined = @ \cup {String(a.u)}]
    /\ UNCHANGED <<call, registryVars, engine, main, crawlGuard, workers, harvCount,
                   fetched, analyserGuard, out>>

\* a store that keeps the researcher whatever Do returned
StoresAlways(ok) == TRUE

\* analyser, line 131: if err == nil
StoresResult(ok) == ok

\* analyser, lines 130-134: Do returns; on an error the loop breaks without a write
AnalyserDo(a) ==
    /\ a.pc = "do"
    /\ analysers' = (analysers \ {a}) \cup
                       {[a EXCEPT !.pc = IF StoresResult(DoSucceeds(a.u))
                                         THEN "write" ELSE "release"]}
    /\ analysis' = [analysis EXCEPT !.doLog =
                       [k \in DOMAIN @ \cup {String(a.u)} |->
                           IF k = String(a.u)
                           THEN (IF k \in DOMAIN @ THEN @[k] ELSE <<>>)
                                   \o <<[t |-> a.t, ok |-> DoSucceeds(a.u)]>>
                           ELSE @[k]]]
    /\ UNCHANGED <<call, registryVars, engine, main, crawlGuard, workers, harvCount,
                   fetched, analyserGuard, mutex, doCount, out>>

\* analyser, line 132: docStorage[url.String()] = eng
AnalyserWrite(a) ==
    /\ a.pc = "write"
    /\ engine' = [engine EXCEPT !.docStorage =
                     [k \in DOMAIN @ \cup {String(a.u)} |->
                         IF k = String(a.u) THEN a.t ELSE @[k]]]
    /\ analysers' = (analysers \ {a}) \cup {[a EXCEPT !.pc = "release"]}
    /\ analysis' = [analysis EXCEPT !.writes = Bump(@, String(a.u))]
    /\ UNCHANGED <<call, registryVars, main, crawlGuard, workers, harvCount, fetched,
                   analyserGuard, mutex, doCount, out>>

\* analyser, line 137: <-guard
AnalyserRelease(a) ==
    /\ a.pc = "release"
    /\ analyserGuard' = Receive(analyserGuard)
    /\ analysers' = (analysers \ {a}) \cup {[a EXCEPT !.pc = "unlock"]}
    /\ UNCHANGED <<call, registryVars, engine, main, crawlGuard, workers, harvCount,
                   fetched, mutex, doCount, analysis, out>>

\* a goroutine that returns without unlocking the engine's mutex
AnalyserUnlockKeepsMutex(a) ==
    /\ a.pc = "unlock"
    /\ analysers' = analysers \ {a}
    /\ UNCHANGED <<call, registryVars, engine, main, crawlGuard, workers, harvCount,
                   fetched, analyserGuard, mutex, doCount, analysis, out>>

\* analyser, lines 122-124: the deferred mutex.Unlock() and wg.Done()
AnalyserUnlock(a) ==
    /\ a.pc = "unlock"
    /\ mutex' = mutex \ {a.u}
    /\ analysers' = analysers \ {a}
    /\ UNCHANGED <<call, registryVars, engine, main, crawlGuard, workers, harvCount,
                   fetched, analyserGuard, doCount, analysis, out>>

AnalyserMain == AnalyserStart \/ AnalyserSpawn \/ AnalyserWait

AnalyserWorker ==
    \E a \in analysers :
        \/ AnalyserLock(a)
        \/ AnalyserDo(a)
        \/ AnalyserWrite(a)
        \/ AnalyserRelease(a)
        \/ AnalyserUnlock(a)

-----------------------------------------------------------------------------
(* tEngine.output *)

\* tPdf.OutJSON and tMsox.OutJSON: json.Marshal of a researcher whose Do found
\* no metadata; the empty fields of the pdf are omitted
OutJSON(key, t) ==
    IF t = "pdf"
    THEN "{\"url\":\"" \o key \o "\"}"
    ELSE "{\"url\":\"" \o key \o "\",\"CoreProperty\":{\"coreProperties\":"
            \o "{\"Space\":\"\",\"Local\":\"\"}},\"AppProperty\":{\"properties\":"
            \o "{\"Space\":\"\",\"Local\":\"\"}}}"

\* a comma before every object, the first one too
SeparatorAlways(isFirst) == ","

\* output, lines 181-183: a comma unless this is the first object
Separator(isFirst) == IF isFirst THEN "" ELSE ","

\* output, lines 160-166, and run, lines 70-73: os.Create fails; output returns
\* the error and run prints it
OutputCreateFails ==
    /\ main.pc = "analyser_done"
    /\ engine.outputFileName # ""
    /\ main' = [main EXCEPT !.pc = "done", !.err = "create"]
    /\ UNCHANGED <<call, registryVars, engine, crawlGuard, workers, harvCount, fetched,
                   analyserGuard, analysers, mutex, doCount, analysis, out>>

\* output, lines 170-178: the writer, "[", isFirst, the slice getAllUrls returns
OutputStart ==
    /\ main.pc = "analyser_done"
    /\ out' = "["
    /\ main' = [main EXCEPT !.pc = "output", !.isFirst = TRUE, !.emitted = <<>>,
                            !.snapshot = getAllUrls(urlStorage)]
    /\ UNCHANGED <<call, registryVars, engine, crawlGuard, workers, harvCount, fetched,
                   analyserGuard, analysers, mutex, doCount, analysis>>

\* output, lines 178-187: the next URL of the slice (a map iteration: any order);
\* its object is written when the result store has an entry for it; emitted is
\* the history of the keys whose object was written, in the order of the walk
OutputNext ==
    /\ main.pc = "output"
    /\ \E u \in main.snapshot :
          LET key == String(u)
              exists == key \in DOMAIN engine.docStorage IN
          /\ out' = IF exists
                    THEN out \o Separator(main.isFirst)
                             \o OutJSON(key, engine.docStorage[key])
                    ELSE out
          /\ main' = [main EXCEPT !.snapshot = @ \ {u},
                                  !.emitted = IF exists THEN Append(@, key) ELSE @,
                                  !.isFirst = IF exists THEN FALSE ELSE @]
    /\ UNCHANGED <<call, registryVars, engine, crawlGuard, workers, harvCount, fetched,
                   analyserGuard, analysers, mutex, doCount, analysis>>

\* output, lines 171 and 192: return nil, then the deferred bufout.Flush()
\* runs and its result is dropped
ReturnAfterFlush(flushOk) == ""

\* output, lines 190-192: "]", return nil, the deferred Flush; the buffered
\* bytes reach the sink (flushed) or the sink fails
OutputEnd ==
    /\ main.pc = "output"
    /\ main.snapshot = {}
    /\ out' = out \o "]"
    /\ \E flushOk \in BOOLEAN :
          main' = [main EXCEPT !.pc = "done", !.flushed = flushOk,
                                  !.err = ReturnAfterFlush(flushOk)]
    /\ UNCHANGED <<call, registryVars, engine, crawlGuard, workers, harvCount, fetched,
                   analyserGuard, analysers, mutex, doCount, analysis>>

Output == OutputCreateFails \/ OutputStart \/ OutputNext \/ OutputEnd

-----------------------------------------------------------------------------
(* Specifications *)

\* tEngine.run: crawl, then analyser, then output
Init == InitRegistryVars /\ InitEngineVars(Opts) /\ call = NoCall

Next ==
    \/ CrawlHarvFetch
    \/ CrawlHarvLink
    \/ CrawlHarvReturn
    \/ CrawlUse
    \/ CrawlCase1
    \/ CrawlCase2
    \/ CrawlSleep
    \/ CrawlSpawn
    \/ \E w \in workers : WorkerFetch(w)
    \/ \E w \in workers : WorkerLink(w)
    \/ \E w \in workers : WorkerRelease(w)
    \/ AnalyserStart
    \/ AnalyserSpawn
    \/ AnalyserWait
    \/ \E a \in analysers : AnalyserLock(a)
    \/ \E a \in analysers : AnalyserDo(a)
    \/ \E a \in analysers : AnalyserWrite(a)
    \/ \E a \in analysers : AnalyserRelease(a)
    \/ \E a \in analysers : AnalyserUnlock(a)
    \/ OutputCreateFails
    \/ OutputStart
    \/ OutputNext
    \/ OutputEnd

Spec == Init /\ [][Next]_vars

\* Spec under the Go scheduler: a goroutine that can run does run
SpecLive == Spec /\ WF_vars(CrawlMain) /\ WF_vars(CrawlWorker)
                 /\ WF_vars(AnalyserMain) /\ WF_vars(AnalyserWorker)
                 /\ WF_vars(Output)

\* concurrent callers of the storage
RegistryNext ==
    \/ \E c \in Callers, u \in TestUrls : AddCall(c, u)
    \/ \E c \in Callers : AddCheck(c)
    \/ \E c \in Callers : AddInsert(c)
    \/ \E c \in Callers : UseCall(c)
    \/ \E c \in Callers : UseScan(c)
    \/ \E c \in Callers : UseMark(c)
    \/ \E c \in Readers : AddNil(c)
    \/ \E c \in Readers : GetAllUrlsCall(c)
    \/ \E c \in Readers, u \in TestUrls \cup {NoUrl} : CheckCall(c, u)
    \/ \E c \in Readers : CountCall(c)

InitRegistry ==
    InitRegistryVars
    /\ InitEngineVars({[Site |-> String(Root), Type |-> <<"pdf">>, Output |-> "", Paramax |-> 1]})
    /\ call = NoCall

SpecRegistry == InitRegistry /\ [][RegistryNext]_vars

\* main on command lines newEngine refuses, next to one it accepts
InitConfig == InitRegistryVars /\ InitEngineVars(OptsConfig) /\ call = NoCall

\* the steps of main, a panic of make included
NextConfig ==
    \/ CrawlHarvFetch
    \/ CrawlHarvLink
    \/ CrawlHarvReturn
    \/ CrawlUse
    \/ CrawlCase1
    \/ CrawlCase2
    \/ CrawlSleep
    \/ CrawlSpawn
    \/ \E w \in workers : WorkerFetch(w)
    \/ \E w \in workers : WorkerLink(w)
    \/ \E w \in workers : WorkerRelease(w)
    \/ AnalyserStart
    \/ AnalyserSpawn
    \/ AnalyserWait
    \/ \E a \in analysers : AnalyserLock(a)
    \/ \E a \in analysers : AnalyserDo(a)
    \/ \E a \in analysers : AnalyserWrite(a)
    \/ \E a \in analysers : AnalyserRelease(a)
    \/ \E a \in analysers : AnalyserUnlock(a)
    \/ OutputCreateFails
    \/ OutputStart
    \/ OutputNext
    \/ OutputEnd
    \/ CrawlMakePanics

SpecConfig == InitConfig /\ [][NextConfig]_vars

-----------------------------------------------------------------------------
(* Claims about tEngine.crawl *)

CrawlReturned == main.pc = "crawl_done"

\* C1: when crawl() returns, the storage holds no unused entry and no link
\* extraction is in flight.
C1_ReturnsAtFixedPoint ==
    CrawlReturned => (Unused(urlStorage) = {} /\ workers = {})

\* resolveUrl of the i-th anchor of the page at u against u
Anchor(u, i) == Resolve(u, Page(u).hrefs[i])

\* the URLs a successful GET of u yields
LinksOf(u) ==
    LET hs == HarvFetch(u) IN
    {Anchor(u, i).url : i \in {j \in 1..Len(hs) : Anchor(u, j).ok}}

LinkStep(e, S) == S \cup UNION {LinksOf(u) : u \in {v \in S : Expands(e, v)}}

RECURSIVE LinkClosure(_, _)
LinkClosure(e, S) == IF LinkStep(e, S) = S THEN S ELSE LinkClosure(e, LinkStep(e, S))

\* every URL linked from the start page or from a same-host page reachable from it
Linked(e) == LinkClosure(e, LinksOf(e.url))

\* C4: when crawl() returns, the storage contains every URL linked from the
\* start page and from every same-host page reachable from it, at any depth.
C4_CrawlComplete ==
    CrawlReturned => Linked(engine) \subseteq getAllUrls(urlStorage)

\* C6: harv is invoked at most once per URL string, the start URL included.
C6_HarvAtMostOnce == \A k \in DOMAIN harvCount : harvCount[k] <= 1

\* C7: after crawl() returns, the start URL is an entry of the storage.
C7_StartUrlSeeded == CrawlReturned => engine.url \in getAllUrls(urlStorage)

\* C5: under fair scheduling crawl() eventually returns.
C5_CrawlTerminates == <>CrawlReturned

\* link extractions in flight: the goroutines, and harv of the start URL
InFlight == Cardinality(workers) + (IF main.pc = "crawl_harv" THEN 1 ELSE 0)

\* C8: at most P link extractions are in flight, and the occupied slots of
\* crawl's guard are the spawned extractions that have not completed.
C8_CrawlBounded ==
    /\ InFlight <= engine.paramax
    /\ crawlGuard = Cardinality(workers)

-----------------------------------------------------------------------------
(* Claims about tEngine.analyser *)

\* the goroutines of analyser that hold a slot of its guard
SlotHolders == {a \in analysers : a.pc \in {"lock", "do", "write", "release"}}

\* the goroutines of analyser inside Researcher.Do
InDo == {a \in analysers : a.pc = "do"}

\* the goroutines of analyser at the write of docStorage
InWrite == {a \in analysers : a.pc = "write"}

\* C9: at most P Do calls are in progress in analyser, under a guard of its
\* own that starts empty and counts the goroutines holding a slot.
C9_AnalyserBounded ==
    /\ Cardinality(InDo) <= engine.paramax
    /\ Cardinality(SlotHolders) <= engine.paramax
    /\ analyserGuard = Cardinality(SlotHolders)
    /\ (main.pc = "crawl_done" => analysers = {})

\* C10: at most one goroutine is inside the section that writes docStorage,
\* and it holds the engine's mutex.
C10_ResultStoreMutex ==
    /\ Cardinality(InWrite) <= 1
    /\ Cardinality(mutex) <= 1
    /\ \A a \in InWrite : a.u \in mutex

-----------------------------------------------------------------------------
(* Claims about tUrlStorage under concurrent callers *)

Occurrences(q, k) == Cardinality({i \in 1..Len(q) : q[i] = k})

AddInProgress == \E c \in Callers : caller[c].pc \in {"add_check", "add_insert"}

\* C2: no entry is returned by use twice, an entry is used exactly when it
\* has been returned once, and a use that scans when every entry has been
\* acquired returns not-found.
C2_ExactlyOnceDispatch ==
    /\ \A k \in DOMAIN dispatched : dispatched[k] = 1
    /\ \A k \in DOMAIN urlStorage.urlStatus :
          urlStorage.urlStatus[k] <=> k \in DOMAIN dispatched
    /\ \A c \in Callers :
          ret[c].op = "use" =>
             /\ (ret[c].ok => ret[c].pending > 0)
             /\ (ret[c].pending = 0 => ~ret[c].ok)
             /\ (~ret[c].ok => ret[c].pending = 0)

\* C3: the entries are the distinct keys submitted, one entry per key.
C3_Dedup ==
    /\ DOMAIN urlStorage.urlStatus \subseteq submitted
    /\ DOMAIN urlStorage.urlObjects = DOMAIN urlStorage.urlStatus
    /\ (~AddInProgress => count(urlStorage).total = Cardinality(submitted))
    /\ Cardinality(getAllUrls(urlStorage)) = count(urlStorage).total
    /\ \A k \in submitted : Occurrences(urlStorage.queue, k) <= 1

-----------------------------------------------------------------------------
(* Witnesses *)

\* C2: all the entries were acquired, by different callers, and a later use
\* returned not-found
C2_Witness ==
    /\ DOMAIN dispatched = {String(u) : u \in TestUrls}
    /\ \E c1, c2 \in Callers :
          /\ c1 # c2
          /\ ret[c1].op = "use" /\ ret[c1].ok
          /\ ret[c2].op = "use" /\ ~ret[c2].ok

\* C3: every URL was submitted, one add was rejected as a duplicate while
\* another caller's add went in
C3_Witness ==
    /\ ~AddInProgress
    /\ count(urlStorage).total = Cardinality(TestUrls)
    /\ \E c1, c2 \in Callers :
          /\ c1 # c2
          /\ ret[c1].op = "add" /\ ~ret[c1].ok
          /\ ret[c2].op = "add" /\ ret[c2].ok

\* C5: crawl() has returned after following the cycle back to the start page
C5_Witness ==
    /\ CrawlReturned
    /\ engine.url = Root
    /\ String(Root) \in DOMAIN harvCount
    /\ harvCount[String(Root)] = 2
    /\ Unused(urlStorage) = {}

\* C8: every slot is taken and crawl blocks on the guard with one more URL
C8_Witness ==
    /\ engine.paramax = 2
    /\ Cardinality(workers) = 2
    /\ main.pc = "send"

\* C9: every slot of analyser's guard is taken, a Do call is in progress and
\* URLs of the snapshot are still waiting
C9_Witness ==
    /\ main.pc = "analyser"
    /\ engine.paramax = 2
    /\ analyserGuard = 2
    /\ InDo # {}
    /\ main.snapshot # {}

\* C10: one goroutine writes docStorage while another that will write too
\* waits for the mutex
C10_Witness ==
    /\ InWrite # {}
    /\ \E b \in analysers :
          /\ b.pc = "lock"
          /\ MatchType(engine.docTypes, b.u) # ""
          /\ DoSucceeds(b.u)

-----------------------------------------------------------------------------
(* Claims about the filter of crawl and the second and third phase *)

\* the goroutines of analyser that hold the engine's mutex
MutexHolders == {a \in analysers : a.u \in mutex}

\* C11: the engine's mutex is held around the write of docStorage only, not
\* around Researcher.Do, so that two Do calls can be in progress at once.
C11_LockCoversOnlyWrite ==
    \A a \in MutexHolders : a.pc = "write"

\* what the code does instead: Do runs under the mutex, one call at a time
DoIsSerialized ==
    /\ Cardinality(InDo) <= 1
    /\ \A a \in InDo : a.u \in mutex

\* the URL that crawl's filter (line 96) leaves out: a scheme other than http
\* and https, or a host name other than the start URL's
FilteredOut(u) ==
    \/ u.Scheme \notin {"http", "https"}
    \/ u.Hostname # engine.url.Hostname

\* the stored URLs that use() has returned to crawl
Acquired == {u \in getAllUrls(urlStorage) : String(u) \in DOMAIN dispatched}

\* C12: crawl never spawns a link extraction for an acquired URL of another
\* scheme or host (no slot is requested for it, no goroutine runs harv on it,
\* no GET of it was made), and the URL is still an entry of the storage.
C12_HostFilter ==
    /\ \A w \in workers : ~FilteredOut(w.u)
    /\ (main.pc = "send" => ~FilteredOut(main.urlBase))
    /\ \A u \in getAllUrls(urlStorage) :
          FilteredOut(u) => String(u) \notin DOMAIN harvCount
    /\ \A k \in DOMAIN dispatched : Exists(urlStorage, k)

\* C12: crawl has returned after it acquired an off-host URL and a URL of
\* another scheme; both are in the storage and neither was fetched
C12_Witness ==
    /\ CrawlReturned
    /\ {Ext, Ftp} \subseteq Acquired
    /\ FilteredOut(Ext) /\ FilteredOut(Ftp)
    /\ String(PageA) \in DOMAIN harvCount

\* the URLs whose page harv has fetched and walked to its end
Harvested ==
    {u \in getAllUrls(urlStorage) \cup {engine.url} :
        /\ String(u) \in fetched
        /\ \A w \in workers : w.u # u
        /\ ~(u = engine.url /\ main.pc \in {"crawl", "crawl_harv"})}

\* the URLs the anchors already walked by harv resolve to
Walked(u, todo) ==
    LET hs == HarvFetch(u)
        n == Len(hs) - Len(todo) IN
    {Anchor(u, i).url : i \in {j \in 1..n : Anchor(u, j).ok}}

\* C13: harv adds every href that resolves to the storage, whatever its host
\* and scheme: the links of a harvested page, and the links walked so far of
\* a page being harvested, are in the storage.
C13_HostAgnosticDiscovery ==
    /\ \A u \in Harvested : LinksOf(u) \subseteq getAllUrls(urlStorage)
    /\ \A w \in workers :
          w.pc = "links" => Walked(w.u, w.todo) \subseteq getAllUrls(urlStorage)
    /\ (main.pc = "crawl_harv" =>
          Walked(engine.url, main.todo) \subseteq getAllUrls(urlStorage))

\* C13: the pages linking the off-host URL and the ftp URL were harvested
C13_Witness ==
    /\ {PageA, PageB} \subseteq Harvested
    /\ Ext \in LinksOf(PageA) /\ Ext \in getAllUrls(urlStorage)
    /\ Ftp \in LinksOf(PageB) /\ Ftp \in getAllUrls(urlStorage)

\* C14: a URL that crawl acquired and filtered out stays marked used, is
\* acquired once only, is never fetched by harv, and getAllUrls returns it.
C14_FilteredStaysUsed ==
    \A u \in Acquired :
        FilteredOut(u) =>
            /\ urlStorage.urlStatus[String(u)]
            /\ dispatched[String(u)] = 1
            /\ Occurrences(urlStorage.queue, String(u)) = 0
            /\ String(u) \notin DOMAIN harvCount
            /\ \A w \in workers : w.u # u
            /\ u \in getAllUrls(urlStorage)

\* C14: analyser examines the off-host URL that crawl acquired and left out
C14_Witness ==
    /\ Ext \in Acquired
    /\ FilteredOut(Ext)
    /\ \E a \in analysers : a.u = Ext /\ a.pc = "do"

\* the requested types
Requested == {engine.docTypes[i] : i \in 1..Len(engine.docTypes)}

\* the Do calls that have returned for the key, and those of type t
DoLog(k) == IF k \in DOMAIN analysis.doLog THEN analysis.doLog[k] ELSE <<>>
DoCalls(k, t) == Cardinality({i \in 1..Len(DoLog(k)) : DoLog(k)[i].t = t})

AnalyserReturned == main.pc \in {"analyser_done", "output", "done"}

\* C15: a URL gets at most one Do call; a call is made by the researcher of a
\* requested type whose suffix the URL has; and when analyser has returned,
\* every stored URL ending in "."+t got exactly one call of type t if t is
\* requested and none if it is not, whether the call failed or not.
C15_DispatchBySuffix ==
    /\ \A k \in DOMAIN doCount : doCount[k] <= 1
    /\ \A a \in analysers :
          a.pc \in {"do", "write"} =>
              a.t \in Requested /\ HasSuffix(String(a.u), "." \o a.t)
    /\ \A u \in getAllUrls(urlStorage) : Len(DoLog(String(u))) <= 1
    /\ AnalyserReturned =>
          \A u \in getAllUrls(urlStorage), t \in allFileTypes :
              DoCalls(String(u), t) =
                  IF t \in Requested /\ HasSuffix(String(u), "." \o t) THEN 1 ELSE 0

\* C15: the type list repeats pdf; analyser has returned after one call that
\* succeeded and one call, and no more, for the URL whose GET fails
C15_Witness ==
    /\ AnalyserReturned
    /\ engine.docTypes = <<"docx", "pdf", "pdf">>
    /\ DoLog(String(DocPdf)) = <<[t |-> "pdf", ok |-> TRUE]>>
    /\ DoLog(String(Ftp)) = <<[t |-> "pdf", ok |-> FALSE]>>
    /\ DoLog(String(PageA)) = <<>>

\* the keys whose Do call returned nil
Succeeded == {k \in DOMAIN analysis.doLog : \E i \in 1..Len(analysis.doLog[k]) : analysis.doLog[k][i].ok}

\* the goroutines of analyser between the return of Do and the write
AboutToWrite == {String(a.u) : a \in InWrite}

\* docStorage has an entry for exactly the URLs whose Do call returned nil (the
\* write follows the return under the same lock); a failed call is not repeated
\* and analyser returns after it has examined every stored URL
ResultIffSuccess ==
    /\ DOMAIN engine.docStorage = Succeeded \ AboutToWrite
    /\ \A k \in DOMAIN analysis.writes : analysis.writes[k] = 1 /\ k \in Succeeded
    /\ \A k \in DOMAIN analysis.doLog : Len(analysis.doLog[k]) = 1
    /\ \A k \in DOMAIN engine.docStorage : engine.docStorage[k] = analysis.doLog[k][1].t
    /\ AnalyserReturned =>
          /\ analysis.examined = {String(u) : u \in getAllUrls(urlStorage)}
          /\ analysers = {}

\* C16: docStorage has an entry for a URL if and only if a Do call for it
\* returned nil; a failed call writes nothing and is not repeated, the other
\* URLs are still analysed and analyser returns; every key is written once at
\* most and its entry never changes.
C16_ResultIffSuccess ==
    /\ []ResultIffSuccess
    /\ [][\A k \in DOMAIN engine.docStorage :
             /\ k \in DOMAIN engine.docStorage'
             /\ engine.docStorage'[k] = engine.docStorage[k]]_vars

\* C16: analyser has returned; one Do call failed on a transport error, one on
\* a 404, and the documents that parse are in the result store
C16_Witness ==
    /\ AnalyserReturned
    /\ DoLog(String(Ftp)) = <<[t |-> "pdf", ok |-> FALSE]>>
    /\ DoLog(String(BPdf)) = <<[t |-> "pdf", ok |-> FALSE]>>
    /\ DOMAIN engine.docStorage = {String(DocPdf), String(Ext)}

\* crawl has not returned yet
InCrawl == main.pc \in {"crawl", "crawl_harv", "use", "send", "case1", "case2", "sleep"}

\* no Do call before crawl has returned; what analyser examines is in the
\* storage; no goroutine of crawl outlives crawl
PhasesInOrder ==
    /\ InCrawl =>
          /\ analysers = {}
          /\ DOMAIN doCount = {}
          /\ analysis.examined = {}
          /\ DOMAIN engine.docStorage = {}
    /\ ~InCrawl => workers = {} /\ crawlGuard = 0
    /\ \A a \in analysers : a.u \in getAllUrls(urlStorage)
    /\ main.snapshot \subseteq getAllUrls(urlStorage)
    /\ \A k \in analysis.examined : Exists(urlStorage, k)

\* C17: no Do call starts before crawl() has returned, every URL analysed is
\* in the storage before it is analysed, and once crawl() has returned the
\* storage is not modified any more, neither during analyser nor during output.
C17_PhaseOrdering ==
    /\ []PhasesInOrder
    /\ [][~InCrawl => urlStorage' = urlStorage]_vars

\* C17: a Do call is in progress after a crawl in which two goroutines ran harv
C17_Witness ==
    /\ main.pc = "analyser"
    /\ InDo # {}
    /\ engine.paramax = 2
    /\ Cardinality(DOMAIN harvCount) >= 4

\* analyser is where it returns: every URL of its snapshot was examined, every
\* goroutine has finished, the guard is empty and the mutex is free
AnalyserComplete ==
    /\ main.pc = "analyser_done"
    /\ main.snapshot = {}
    /\ analysis.examined = {String(u) : u \in getAllUrls(urlStorage)}
    /\ analysers = {}
    /\ analyserGuard = 0
    /\ mutex = {}

\* C18: once started, analyser() returns, and it returns after it examined
\* every URL of its snapshot and every goroutine it started has finished; the
\* guard and the engine's mutex never block each other for good.
C18_AnalyserTerminates ==
    /\ (main.pc = "analyser") ~> AnalyserComplete
    /\ [](main.pc = "analyser_done" => AnalyserComplete)

\* C18: analyser has returned from a run with one slot in which goroutines had
\* to wait for the slot and for the mutex
C18_Witness ==
    /\ AnalyserComplete
    /\ engine.paramax = 1
    /\ Cardinality(analysis.examined) >= 4
    /\ Cardinality(DOMAIN analysis.doLog) >= 2

-----------------------------------------------------------------------------
(* Claims about tEngine.output *)

\* the objects of the keys, in their order, with one comma between neighbours
RECURSIVE JoinObjects(_)
JoinObjects(keys) ==
    IF keys = <<>> THEN ""
    ELSE IF Len(keys) = 1 THEN OutJSON(keys[1], engine.docStorage[keys[1]])
    ELSE OutJSON(keys[1], engine.docStorage[keys[1]]) \o "," \o JoinObjects(Tail(keys))

\* the keys of the sequence are distinct
NoRepeat(keys) == \A i, j \in 1..Len(keys) : keys[i] = keys[j] => i = j

\* C20: output writes "[", the object of every URL that has an entry in
\* docStorage, each once and in the order getAllUrls yields the URLs, with one
\* comma between two objects and none before the first or after the last,
\* then "]"; it writes "[]" when docStorage is empty.  (An output whose file
\* cannot be created returns the error and writes nothing.)
C20_OutputFormat ==
    /\ main.pc = "output" =>
          /\ out = "[" \o JoinObjects(main.emitted)
          /\ NoRepeat(main.emitted)
          /\ \A i \in 1..Len(main.emitted) : main.emitted[i] \in DOMAIN engine.docStorage
    /\ main.pc = "done" /\ main.err = "" =>
          /\ out = "[" \o JoinObjects(main.emitted) \o "]"
          /\ NoRepeat(main.emitted)
          /\ {main.emitted[i] : i \in 1..Len(main.emitted)} = DOMAIN engine.docStorage
          /\ (DOMAIN engine.docStorage = {} => out = "[]")

\* C20: output has written the objects of two documents
C20_Witness ==
    /\ main.pc = "done"
    /\ out = "[{\"url\":\"http://other.test/x.pdf\"},{\"url\":\"http://site.test/doc.pdf\"}]"

\* output has written the empty array after a crawl that found documents of
\* types that were not requested
EmptyArrayWritten ==
    /\ main.pc = "done"
    /\ out = "[]"
    /\ DocPdf \in getAllUrls(urlStorage)

-----------------------------------------------------------------------------
(* The end-to-end scenario *)

\* a run on the second site with two slots and type pdf has ended
E2eRunEnded ==
    /\ engine.url = E2eRoot
    /\ engine.paramax = 2
    /\ engine.docTypes = <<"pdf">>
    /\ main.pc = "done"

\* the keys of the objects output has written
ResultArray == {main.emitted[i] : i \in 1..Len(main.emitted)}

\* C19: the run on the site root -> /a.html, /doc.pdf; /a.html -> /b.pdf with
\* two slots and type pdf ends with the storage holding the root, /a.html,
\* /doc.pdf and /b.pdf, and with a result array of /doc.pdf and /b.pdf.
C19_EndToEnd ==
    E2eRunEnded =>
        /\ getAllUrls(urlStorage) = {E2eRoot, E2eA, E2eDoc, E2eB}
        /\ ResultArray = {String(E2eDoc), String(E2eB)}
        /\ DOMAIN engine.docStorage = {String(E2eDoc), String(E2eB)}

\* what the run ends with instead: the start URL is not in the storage
E2eWithoutRoot ==
    E2eRunEnded =>
        /\ getAllUrls(urlStorage) = {E2eA, E2eDoc, E2eB}
        /\ ResultArray = {String(E2eDoc), String(E2eB)}
        /\ DOMAIN engine.docStorage = {String(E2eDoc), String(E2eB)}

-----------------------------------------------------------------------------
(* Claims about errors *)

\* run has returned from output
RunReturned == main.pc = "done"

\* C21: output returns an error when the output file cannot be created and
\* when writing or flushing to the sink fails: it returns nil only after the
\* bytes it wrote have reached the sink.
C21_SinkErrorsReported ==
    RunReturned /\ main.err = "" => main.flushed

\* the half that holds: an output file that cannot be created is reported,
\* and nothing is written
CreateErrorReported ==
    RunReturned /\ main.err = "create" => out = "" /\ engine.outputFileName # ""

\* the program did anything beyond newEngine: a GET, an add, an analysis, output
Activity ==
    \/ DOMAIN harvCount # {}
    \/ urlStorage # newUrlStorage
    \/ workers # {} \/ analysers # {}
    \/ DOMAIN doCount # {}
    \/ analysis.examined # {}
    \/ out # ""

\* main has stopped in log.Fatalf
Fatal == main.pc = "fatal"

\* the document types of a refused command line are not all registered
NilEngineReturned == engine = NilEngine

\* C22: when newEngine returns an error, main stops before crawl, analyser and
\* output: no GET is made and nothing is added to the storage; the error is
\* "unknown document format for analysis" with a nil engine, or "invalid URL"
\* with a non-nil engine whose types are all registered; and main stops this
\* way for every command line with an unregistered type or an unparsable site.
C22_ConfigErrors ==
    /\ Fatal =>
          /\ ~Activity
          /\ main.err \in {"unknown document format for analysis", "invalid URL"}
          /\ (main.err = "unknown document format for analysis" <=> NilEngineReturned)
          /\ (main.err = "invalid URL" =>
                 /\ engine.url = NoUrl
                 /\ engine.docTypes # <<>>
                 /\ \A i \in 1..Len(engine.docTypes) : engine.docTypes[i] \in allFileTypes)
    /\ ~Fatal =>
          /\ \A i \in 1..Len(engine.docTypes) : engine.docTypes[i] \in allFileTypes
          /\ engine.url # NoUrl
          /\ engine.url.Scheme # ""

\* C22: main has stopped on a nil engine
C22_Witness ==
    /\ Fatal
    /\ NilEngineReturned
    /\ main.err = "unknown document format for analysis"

\* main has stopped on a site that does not parse
InvalidUrlRefused ==
    /\ Fatal
    /\ main.err = "invalid URL"
    /\ engine.docTypes = <<"pdf">>

-----------------------------------------------------------------------------
(* Claims about harv *)

\* the URLs the anchors of the page's body resolve to, whether harv reads them or not
AllLinks(u) ==
    LET hs == Page(u).hrefs IN
    {Anchor(u, i).url : i \in {j \in 1..Len(hs) : Anchor(u, j).ok}}

\* the URLs harv was called with: stored ones, and the start URL
HarvCalled ==
    {urlStorage.urlObjects[k] : k \in DOMAIN urlStorage.urlObjects \cap DOMAIN harvCount}
        \cup (IF String(engine.url) \in DOMAIN harvCount THEN {engine.url} ELSE {})

\* the pages harv has fetched with status 200
FetchedPages ==
    {urlStorage.urlObjects[k] : k \in DOMAIN urlStorage.urlObjects \cap fetched}
        \cup (IF String(engine.url) \in fetched THEN {engine.url} ELSE {})

\* C23: a harv whose GET fails or answers another status than 200 adds
\* nothing: it has no anchor to walk, and every stored URL is linked from a
\* page that was fetched with status 200.
C23_FailedGetAddsNothing ==
    /\ \A w \in workers : w.pc = "links" /\ Page(w.u).status # 200 => w.todo = <<>>
    /\ main.pc = "crawl_harv" /\ Page(engine.url).status # 200 => main.todo = <<>>
    /\ getAllUrls(urlStorage) \subseteq
          UNION {AllLinks(u) : u \in {v \in FetchedPages \cap HarvCalled : Page(v).status = 200}}

\* C23: crawl has returned after harv got a 404 whose body has an anchor; the
\* URL of that anchor is not in the storage
C23_Witness ==
    /\ CrawlReturned
    /\ BPdf \in HarvCalled
    /\ Page(BPdf).status = 404
    /\ Lost \in AllLinks(BPdf)
    /\ Lost \notin getAllUrls(urlStorage)

\* harv was called with a URL whose GET is a transport error
TransportErrorHarvested ==
    /\ CrawlReturned
    /\ SlowOne \in HarvCalled
    /\ Page(SlowOne).status = 0

\* the pages whose body broke off while harv read it, harv having returned
BrokenOff == {u \in Harvested : AnchorsRead(u) < Len(Page(u).hrefs)}

\* C24: a page whose body fails part-way while harv reads it contributes no
\* link: none of its anchors is in the storage.
C24_BrokenPageAddsNothing ==
    \A u \in BrokenOff : AllLinks(u) \cap getAllUrls(urlStorage) = {}

\* what harv does instead: the anchors read before the failure are added
\* as they are read, the others are not
BrokenPageAddsPrefix ==
    \A u \in BrokenOff : AllLinks(u) \cap getAllUrls(urlStorage) = LinksOf(u)

\* the hrefs of the page that do not resolve
BadHrefs(u) == {i \in 1..Len(Page(u).hrefs) : ~Anchor(u, i).ok}

\* the pages harv has read to the end of the body, harv having returned
WalkedToEnd ==
    {u \in FetchedPages :
        /\ AnchorsRead(u) = Len(Page(u).hrefs)
        /\ \A w \in workers : w.u # u
        /\ ~(u = engine.url /\ main.pc \in {"crawl", "crawl_harv"})}

\* C25: an href that does not resolve is skipped alone: once harv has walked
\* a page, every other href of it, before and after the bad one, is in the
\* storage, and nothing was stored for the bad one.
C25_BadHrefSkippedAlone ==
    /\ \A u \in WalkedToEnd :
          BadHrefs(u) # {} => AllLinks(u) \subseteq getAllUrls(urlStorage)
    /\ NoUrl \notin getAllUrls(urlStorage)
    /\ DOMAIN urlStorage.urlStatus \cap {"", String(NoUrl)} = {}

\* C25: harv has walked the page whose second href does not resolve; the
\* links before and after it are stored
C25_Witness ==
    /\ PageA \in WalkedToEnd
    /\ BadHrefs(PageA) = {2}
    /\ {PageB, Ext, Root} \subseteq getAllUrls(urlStorage)

-----------------------------------------------------------------------------
(* Claims about tUrlStorage's entries and its read-only operations *)

\* C26: across add, use, getAllUrls, check and count an entry once stored is
\* never removed and never replaced, and its status goes from unused to used
\* only, never back.
C26_EntriesPermanent ==
    [][\A k \in DOMAIN urlStorage.urlStatus :
          /\ k \in DOMAIN urlStorage'.urlStatus
          /\ k \in DOMAIN urlStorage'.urlObjects
          /\ urlStorage'.urlObjects[k] = urlStorage.urlObjects[k]
          /\ (urlStorage.urlStatus[k] => urlStorage'.urlStatus[k])]_vars

\* C26: an entry was acquired and its URL was then submitted again
C26_Witness ==
    \E c \in Callers :
        /\ ret[c].op = "add" /\ ~ret[c].ok
        /\ ret[c].key \in DOMAIN dispatched
        /\ urlStorage.urlStatus[ret[c].key]

\* goroutine c returns from add(u) in this step, u not nil
AddReturns(c) ==
    /\ caller[c].pc \in {"add_check", "add_insert"}
    /\ caller'[c].pc = "idle"

\* C27: add returns true exactly when the key was absent and is stored as
\* unused by the call; when it returns false (the key is present, used or
\* not, or the URL is nil) the storage is as it was.
C27_AddResult ==
    [][/\ \A c \in Callers :
             AddReturns(c) =>
                /\ ret'[c].op = "add"
                /\ ret'[c].ok <=>
                      /\ caller[c].key \notin DOMAIN urlStorage.urlStatus
                      /\ caller[c].key \in DOMAIN urlStorage'.urlStatus
                      /\ ~urlStorage'.urlStatus[caller[c].key]
                      /\ urlStorage'.urlObjects[caller[c].key] = caller[c].u
                /\ (~ret'[c].ok => urlStorage' = urlStorage)
       /\ \A c \in Callers :
             (ret'[c] # ret[c] /\ ret'[c].op = "add" /\ ret'[c].key = "") =>
                ~ret'[c].ok /\ urlStorage' = urlStorage]_vars

\* C27: an add of a URL whose entry is used has returned false, and the entry
\* is still used; another add has returned true
C27_Witness ==
    \E c1, c2 \in Callers :
        /\ c1 # c2
        /\ ret[c1].op = "add" /\ ~ret[c1].ok
        /\ ret[c1].key \in DOMAIN dispatched
        /\ urlStorage.urlStatus[ret[c1].key]
        /\ ret[c2].op = "add" /\ ret[c2].ok

\* add(nil) has returned false while the storage holds entries
NilAddRefused ==
    \E c \in Callers :
        /\ ret[c].op = "add" /\ ret[c].key = "" /\ ~ret[c].ok
        /\ DOMAIN urlStorage.urlStatus # {}

\* the stored URLs, from the maps (not through getAllUrls)
Entries == {urlStorage.urlObjects[k] : k \in DOMAIN urlStorage.urlStatus}

\* C28: getAllUrls returns exactly the entries stored when it is called, used
\* and unused alike and each once; what it has returned does not change when
\* URLs are added later (it stays a subset of the entries), and the call
\* leaves the storage as it was.
C28_GetAllUrlsSnapshot ==
    [][\A c \in Callers :
          /\ (ret'[c] # ret[c] /\ ret'[c].op = "all") =>
                /\ ret'[c].val = Entries
                /\ Cardinality(ret'[c].val) = Cardinality(DOMAIN urlStorage.urlStatus)
                /\ urlStorage' = urlStorage
          /\ (ret[c].op = "all" /\ ret'[c].op = "all" /\ urlStorage' # urlStorage) =>
                /\ ret'[c].val = ret[c].val
                /\ ret'[c].val \subseteq {urlStorage'.urlObjects[k] :
                                            k \in DOMAIN urlStorage'.urlObjects}]_vars

\* C28: getAllUrls returned a used and an unused entry, and a URL was added
\* after that
C28_Witness ==
    \E c \in Callers :
        /\ ret[c].op = "all"
        /\ \E u, v \in ret[c].val : String(u) \in DOMAIN dispatched /\ String(v) \notin DOMAIN dispatched
        /\ Entries \ ret[c].val # {}

\* C29: count returns the number of entries and the number of entries use
\* has returned, 0 <= used <= total, and the total never decreases; check
\* returns (false, false) for nil and for a URL never added, (true, false)
\* for a stored entry and (true, true) once use has returned it; neither
\* call changes the storage.
C29_ExactViews ==
    [][/\ Cardinality(DOMAIN urlStorage'.urlStatus) >= Cardinality(DOMAIN urlStorage.urlStatus)
       /\ \A c \in Callers :
             /\ (ret'[c] # ret[c] /\ ret'[c].op = "count") =>
                   /\ ret'[c].val.total = Cardinality(Entries)
                   /\ ret'[c].val.used = Cardinality(DOMAIN dispatched)
                   /\ 0 <= ret'[c].val.used /\ ret'[c].val.used <= ret'[c].val.total
                   /\ urlStorage' = urlStorage
             /\ (ret'[c] # ret[c] /\ ret'[c].op = "check") =>
                   /\ ret'[c].val.exists <=>
                         ret'[c].key \in {String(u) : u \in Entries}
                   /\ ret'[c].val.used <=> ret'[c].key \in DOMAIN dispatched
                   /\ (ret'[c].key = "" => ~ret'[c].val.exists /\ ~ret'[c].val.used)
                   /\ (ret'[c].val.used => ret'[c].val.exists)
                   /\ urlStorage' = urlStorage]_vars

\* C29: count has returned (3, 1), and check (true, true)
C29_Witness ==
    \E c \in Callers :
        /\ ret[c].op = "count"
        /\ ret[c].val = [total |-> Cardinality(TestUrls), used |-> 1]
        /\ Cardinality(DOMAIN dispatched) = 1

\* check has returned (true, true)
CheckAnswers ==
    \E c \in Callers :
        /\ ret[c].op = "check"
        /\ ret[c].val = [exists |-> TRUE, used |-> TRUE]

\* the keys of the queue
Queued == {urlStorage.queue[i] : i \in 1..Len(urlStorage.queue)}

\* goroutine c holds the lock inside use and has not scanned the queue yet
UseScanning(c) == caller[c].pc = "use_scan"

\* C30: use returns not-found only when no entry is unused at the moment it
\* holds the lock, and a use that holds the lock while an unused entry exists
\* returns one: the queue holds exactly the unused keys.
C30_UseFindsWork ==
    /\ [](Queued = Unused(urlStorage))
    /\ [][\A c \in Callers :
             (UseScanning(c) /\ caller'[c] # caller[c]) =>
                IF Unused(urlStorage) = {}
                THEN ret'[c].op = "use" /\ ~ret'[c].ok /\ caller'[c].pc = "idle"
                ELSE /\ caller'[c].pc = "use_mark"
                     /\ caller'[c].key \in Unused(urlStorage)]_vars
    /\ [][\A c \in Callers :
             (caller[c].pc = "use_mark" /\ caller'[c] # caller[c]) =>
                /\ ret'[c].op = "use" /\ ret'[c].ok
                /\ ret'[c].key = caller[c].key
                /\ urlStorage'.urlStatus[caller[c].key]]_vars

\* C30: the first of two unused entries was acquired, which moved the last
\* key of the queue, and the next use returned that one
C30_Witness ==
    /\ Cardinality(DOMAIN dispatched) = 2
    /\ Len(urlStorage.queue) = 1
    /\ \E c \in Callers : ret[c].op = "use" /\ ret[c].ok /\ ret[c].pending = 2

-----------------------------------------------------------------------------
(* SpecCalls: single calls of the program's functions on inputs drawn from  *)
(* small sets                                                               *)

\* URLs next to /doc.pdf that differ from it in one or two components
KeyUrls ==
    {Url("http", "example.com", "", "/doc.pdf", "", ""),
     Url("http", "example.com", "", "/doc.pdf", "", "top"),
     Url("http", "example.com", "", "/doc.pdf", "", "page=2"),
     Url("http", "example.com", "", "/doc.pdf", "v=1", ""),
     Url("http", "example.com", "", "/doc.pdf", "v=1", "top"),
     Url("https", "example.com", "", "/doc.pdf", "", ""),
     Url("http", "example.com", "8080", "/doc.pdf", "", ""),
     Url("http", "example.com", "", "/other.pdf", "", "")}

\* add(u) and then add(v) on a fresh storage
AddCalls ==
    [fn : {"add"}, pc : {"first"}, u : KeyUrls, v : KeyUrls,
     us : {newUrlStorage}, r : {<<>>}]

\* add, lines 29-49: what add(u) returns on the storage us
AddOk(us, u) == u # NoUrl /\ ~Exists(us, String(u))

\* the first add of the pair: add(u)
CallAddFirst ==
    /\ call.fn = "add"
    /\ call.pc = "first"
    /\ call' = [call EXCEPT !.us = Add(@, call.u),
                            !.r = Append(@, AddOk(call.us, call.u)),
                            !.pc = "second"]
    /\ UNCHANGED <<registryVars, engineVars>>

\* the second add of the pair: add(v)
CallAddSecond ==
    /\ call.fn = "add"
    /\ call.pc = "second"
    /\ call' = [call EXCEPT !.us = Add(@, call.v),
                            !.r = Append(@, AddOk(call.us, call.v)),
                            !.pc = "done"]
    /\ UNCHANGED <<registryVars, engineVars>>

\* the bases and hrefs of TestResolveUrl, and hrefs of the other forms
BaseStrs ==
    {"https://example.com/page", "https://example.com/page/subpage",
     "https://example.com", "http://example.com:8080/dir/page?x=1#frag",
     "://invalid.url"}

HrefStrs ==
    {"https://example.org/another", "documents/doc.pdf", "/documents/doc.pdf",
     "document?format=pdf&id=123", "://invalid.url",
     "", "#top", "?q=1", "doc.pdf#page=2", "/",
     "../up.pdf", "./here.pdf", "/a/./b/../c.pdf",
     "https://example.org/a/../b.pdf", "HTTPS://example.org/x", "https://example.org",
     "//cdn.example.org/lib.js", "invalid:url", "1a:b", "http://example.org:80a/"}

\* resolveUrl(base, href)
ResolveCalls ==
    [fn : {"resolveUrl"}, pc : {"call"}, base : BaseStrs, href : HrefStrs,
     r : {[ok |-> FALSE, url |-> NoUrl]}]

\* resolveUrl, lines 60-70
CallResolveUrl ==
    /\ call.fn = "resolveUrl"
    /\ call.pc = "call"
    /\ call' = [call EXCEPT !.r = resolveUrl(call.base, call.href), !.pc = "done"]
    /\ UNCHANGED <<registryVars, engineVars>>

\* researchers.maxFileSize: 100 MB
maxFileSize == 100 * 1024 * 1024

\* no temporary file; the file os.CreateTemp returns
NoFile == [exists |-> FALSE, open |-> FALSE, size |-> 0, offset |-> 0]
NewFile == [exists |-> TRUE, open |-> TRUE, size |-> 0, offset |-> 0]

\* tmpFile.Close() and os.Remove(tmpFileName)
CloseAndRemove(f) == [f EXCEPT !.open = FALSE, !.exists = FALSE]

\* the sizes of the bodies read: around 0 and around the ceiling
BodySizes == {0, 1, maxFileSize - 1, maxFileSize, maxFileSize + 1}

\* readCloserToReadSeekerFile(rc): rc delivers size bytes and then EOF, or an
\* error instead of EOF when readFails; CreateTemp and Seek may fail
ReadCalls ==
    [fn : {"readCloserToReadSeekerFile"}, pc : {"create"}, t : {""}, status : {200},
     parses : {FALSE}, size : BodySizes, readFails : BOOLEAN,
     createFails : BOOLEAN, seekFails : BOOLEAN,
     N : {maxFileSize}, tmp : {NoFile}, err : {""}]

\* Researcher.Do(url) of tPdf and of tMsox: the GET answers with a status (0:
\* no answer) and a body that parses as the document or does not
ResearcherCalls ==
    [fn : {"Do"}, pc : {"get"}, t : {"pdf", "docx"}, status : {0, 200, 404},
     parses : BOOLEAN, size : {1, maxFileSize + 1}, readFails : BOOLEAN,
     createFails : {FALSE}, seekFails : {FALSE},
     N : {maxFileSize}, tmp : {NoFile}, err : {""}]

FileCallRunning == call.fn \in {"readCloserToReadSeekerFile", "Do"}

\* tPdf.Do, lines 56-64, and tMsox.Do, lines 78-86: the GET and its status
CallGet ==
    /\ call.fn = "Do"
    /\ call.pc = "get"
    /\ call' = IF call.status = 0 THEN [call EXCEPT !.pc = "done", !.err = "get"]
               ELSE IF call.status # 200 THEN [call EXCEPT !.pc = "done", !.err = "status"]
               ELSE [call EXCEPT !.pc = "create"]
    /\ UNCHANGED <<registryVars, engineVars>>

\* readCloserToReadSeekerFile, lines 49-52: os.CreateTemp
CallCreateTemp ==
    /\ FileCallRunning
    /\ call.pc = "create"
    /\ call' = IF call.createFails THEN [call EXCEPT !.pc = "done", !.err = "create"]
               ELSE [call EXCEPT !.pc = "copy", !.tmp = NewFile]
    /\ UNCHANGED <<registryVars, engineVars>>

\* io.LimitedReader under io.Copy: the bytes that reach the file are the body's,
\* N at most
Copied(size, n) == IF size < n THEN size ELSE n

\* io.Copy from the LimitedReader returns an error: the body's error is met, which
\* the LimitedReader reads only while N > 0
CopyFails(size, n, readFails) == readFails /\ size < n

\* readCloserToReadSeekerFile, lines 55-62: the copy through the LimitedReader; on
\* an error the file is closed and removed
CallCopy ==
    /\ FileCallRunning
    /\ call.pc = "copy"
    /\ LET n == Copied(call.size, call.N)
           written == [call.tmp EXCEPT !.size = n, !.offset = n]
       IN  call' = IF CopyFails(call.size, call.N, call.readFails)
                   THEN [call EXCEPT !.N = @ - n, !.tmp = CloseAndRemove(written),
                                     !.pc = "done", !.err = "read"]
                   ELSE [call EXCEPT !.N = @ - n, !.tmp = written, !.pc = "check"]
    /\ UNCHANGED <<registryVars, engineVars>>

\* readCloserToReadSeekerFile, line 65: limitedReader.N == 0
LimitReached(n, size) == n = 0

\* readCloserToReadSeekerFile, lines 65-70: the size error
CallCheckLimit ==
    /\ FileCallRunning
    /\ call.pc = "check"
    /\ call' = IF LimitReached(call.N, call.size)
               THEN [call EXCEPT !.tmp = CloseAndRemove(@), !.pc = "done", !.err = "size"]
               ELSE [call EXCEPT !.pc = "seek"]
    /\ UNCHANGED <<registryVars, engineVars>>

\* readCloserToReadSeekerFile, lines 73-81: Seek(0, io.SeekStart); the file is
\* returned; Do goes on to read the document from it
CallSeek ==
    /\ FileCallRunning
    /\ call.pc = "seek"
    /\ call' = IF call.seekFails
               THEN [call EXCEPT !.tmp = CloseAndRemove(@), !.pc = "done", !.err = "seek"]
               ELSE [call EXCEPT !.tmp.offset = 0,
                                 !.pc = IF call.fn = "Do" THEN "parse" ELSE "done"]
    /\ UNCHANGED <<registryVars, engineVars>>

\* tPdf.Do, lines 73-77 (api.PDFInfo), and tMsox.Do, lines 95-132 (zip.OpenReader,
\* xml Decode): an error returns at once
CallParse ==
    /\ call.fn = "Do"
    /\ call.pc = "parse"
    /\ call' = IF call.parses THEN [call EXCEPT !.pc = "cleanup"]
               ELSE [call EXCEPT !.pc = "done", !.err = "parse"]
    /\ UNCHANGED <<registryVars, engineVars>>

\* tPdf.Do, lines 80-95, and tMsox.Do, lines 135-141: close and remove the file
CallCleanup ==
    /\ call.fn = "Do"
    /\ call.pc = "cleanup"
    /\ call' = [call EXCEPT !.tmp = CloseAndRemove(@), !.pc = "done"]
    /\ UNCHANGED <<registryVars, engineVars>>

Calls == AddCalls \cup ResolveCalls \cup ReadCalls \cup ResearcherCalls

CallsNext ==
    \/ CallAddFirst
    \/ CallAddSecond
    \/ CallResolveUrl
    \/ CallGet
    \/ CallCreateTemp
    \/ CallCopy
    \/ CallCheckLimit
    \/ CallSeek
    \/ CallParse
    \/ CallCleanup

InitCalls ==
    /\ InitRegistryVars
    /\ InitEngineVars({[Site |-> String(Root), Type |-> <<"pdf">>, Output |-> "", Paramax |-> 1]})
    /\ call \in Calls

SpecCalls == InitCalls /\ [][CallsNext]_vars

-----------------------------------------------------------------------------
(* C31: the uniqueness key is scheme+host+path+query *)

\* the canonical form of the specification: the URL without its fragment
Canonical(u) == String([u EXCEPT !.Fragment = ""])

\* C31: adding two URLs that agree on scheme, host, path and query yields one
\* entry, and the second add returns false
C31_CanonicalReAdd ==
    call.fn = "add" /\ call.pc = "done" /\ Canonical(call.u) = Canonical(call.v)
        => /\ Cardinality(DOMAIN call.us.urlStatus) = 1
           /\ call.r = <<TRUE, FALSE>>

\* what the code does: one entry exactly when the two URLs have the same String()
ReAddByString ==
    call.fn = "add" /\ call.pc = "done"
        => /\ call.r = <<TRUE, String(call.u) # String(call.v)>>
           /\ Cardinality(DOMAIN call.us.urlStatus)
                 = Cardinality({String(call.u), String(call.v)})

-----------------------------------------------------------------------------
(* C32: link resolution *)

\* the path has a "." or ".." segment
HasDotSegment(path) ==
    LET p == "/" \o path \o "/" IN IndexOf(p, "/./") # 0 \/ IndexOf(p, "/../") # 0

\* the strings url.Parse refuses, among BaseStrs and HrefStrs
Unparsable == {"://invalid.url", "1a:b", "http://example.org:80a/"}

\* a resolveUrl call has returned
Resolved == call.fn = "resolveUrl" /\ call.pc = "done"

HrefUrl == Parse(call.href).url
BaseUrl == Parse(call.base).url

\* the href has a scheme; it is a path from the root; it is a path from the
\* base's directory
AbsoluteHref == HrefUrl.Scheme # ""
RootRelativeHref ==
    HrefUrl.Scheme = "" /\ HrefUrl.Hostname = "" /\ HasPrefix(HrefUrl.Path, "/")
RelativeHref ==
    HrefUrl.Scheme = "" /\ HrefUrl.Hostname = "" /\ HrefUrl.Path # ""
        /\ ~HasPrefix(HrefUrl.Path, "/")

\* scheme://host[:port] of the base, and its path up to the last "/"
BaseOrigin ==
    BaseUrl.Scheme \o "://" \o BaseUrl.Hostname
        \o (IF BaseUrl.Port = "" THEN "" ELSE ":" \o BaseUrl.Port)
BaseDir ==
    IF BaseUrl.Path = "" THEN "/"
    ELSE SubSeq(BaseUrl.Path, 1, LastIndexOf(BaseUrl.Path, "/"))

\* the href is returned as it is; it replaces the base's last path segment; it
\* replaces the base's path
ReturnsHref == String(call.r.url) = call.href
ReplacesLastSegment == String(call.r.url) = BaseOrigin \o BaseDir \o call.href
ReplacesPath == String(call.r.url) = BaseOrigin \o call.href

\* an error exactly when the base or the href cannot be parsed
ErrorIffUnparsable ==
    call.r.ok <=> (call.base \notin Unparsable /\ call.href \notin Unparsable)

NormalHref ==
    /\ ~HasDotSegment(HrefUrl.Path)
    /\ Before(call.href, ":") = ToLower[Before(call.href, ":")] \/ ~AbsoluteHref

DotSegmentsRemoved ==
    /\ Resolved
    /\ call.href = "https://example.org/a/../b.pdf"
    /\ call.r.ok
    /\ String(call.r.url) = "https://example.org/b.pdf"

-----------------------------------------------------------------------------
(* C33: the size ceiling *)

\* readCloserToReadSeekerFile has returned, and neither the body nor the
\* temporary file has failed
ReadReturned == call.fn = "readCloserToReadSeekerFile" /\ call.pc = "done"
NoIoError == ~call.createFails /\ ~call.readFails /\ ~call.seekFails

\* the file is returned, whole and positioned at offset 0
Accepted ==
    /\ call.err = ""
    /\ call.tmp = [exists |-> TRUE, open |-> TRUE, size |-> call.size, offset |-> 0]

\* C33: readCloserToReadSeekerFile fails with a size error exactly when the body
\* is larger than maxFileSize; a body of at most maxFileSize bytes, one of
\* exactly maxFileSize bytes too, is accepted and returned at offset 0
C33_SizeCeiling ==
    ReadReturned /\ NoIoError =>
        /\ call.err = "size" <=> call.size > maxFileSize
        /\ call.size <= maxFileSize => Accepted

\* what the code does: the size error is for a body of maxFileSize bytes or more
CeilingIsExclusive ==
    ReadReturned /\ NoIoError =>
        /\ call.err = "size" <=> call.size >= maxFileSize
        /\ call.size < maxFileSize => Accepted

-----------------------------------------------------------------------------
(* SpecRegistrySteps: the callers of SpecRegistry, with every write of add   *)
(* and of use to the storage's maps and queue as a step of its own          *)

\* add, line 45: us.urlObjects[key] = &urlCopy
AddStoreObject(c) ==
    /\ caller[c].pc = "add_insert"
    /\ urlStorage' = [urlStorage EXCEPT
                         !.urlObjects = Insert(urlStorage, caller[c].u).urlObjects]
    /\ caller' = [caller EXCEPT ![c].pc = "add_status"]
    /\ UNCHANGED <<mu, ret, submitted, dispatched>>
    /\ UNCHANGED <<call, engineVars>>

\* add, line 46: us.urlStatus[key] = false
AddSetStatus(c) ==
    /\ caller[c].pc = "add_status"
    /\ urlStorage' = [urlStorage EXCEPT
                         !.urlStatus = Insert(urlStorage, caller[c].u).urlStatus]
    /\ caller' = [caller EXCEPT ![c].pc = "add_append"]
    /\ UNCHANGED <<mu, ret, submitted, dispatched>>
    /\ UNCHANGED <<call, engineVars>>

\* add, lines 47-49: append the key to the queue, return true
AddAppend(c) ==
    /\ caller[c].pc = "add_append"
    /\ urlStorage' = [urlStorage EXCEPT
                         !.queue = Insert(urlStorage, caller[c].u).queue]
    /\ caller' = [caller EXCEPT ![c] = Idle]
    /\ ret' = [ret EXCEPT ![c] = [op |-> "add", ok |-> TRUE,
                                  key |-> caller[c].key, pending |-> 0]]
    /\ mu' = Unlock(mu, c)
    /\ UNCHANGED <<submitted, dispatched>>
    /\ UNCHANGED <<call, engineVars>>

\* use, line 64: us.urlStatus[key] = true
UseSetStatus(c) ==
    /\ caller[c].pc = "use_mark"
    /\ urlStorage' = [urlStorage EXCEPT
                         !.urlStatus = MarkUsed(urlStorage, caller[c].i, caller[c].key).urlStatus]
    /\ caller' = [caller EXCEPT ![c].pc = "use_cut"]
    /\ UNCHANGED <<mu, ret, submitted, dispatched>>
    /\ UNCHANGED <<call, engineVars>>

\* use, lines 67-70: move the last key into the slot, cut the queue, return the URL
UseCut(c) ==
    /\ caller[c].pc = "use_cut"
    /\ urlStorage' = [urlStorage EXCEPT
                         !.queue = MarkUsed(urlStorage, caller[c].i, caller[c].key).queue]
    /\ caller' = [caller EXCEPT ![c] = Idle]
    /\ ret' = [ret EXCEPT ![c] =
                  [op |-> "use", ok |-> TRUE,
                   key |-> String(urlStorage.urlObjects[caller[c].key]),
                   pending |-> Len(urlStorage.queue)]]
    /\ dispatched' = Bump(dispatched, caller[c].key)
    /\ mu' = Unlock(mu, c)
    /\ UNCHANGED submitted
    /\ UNCHANGED <<call, engineVars>>

RegistryStepsNext ==
    \/ \E c \in Callers, u \in TestUrls : AddCall(c, u)
    \/ \E c \in Callers : AddCheck(c)
    \/ \E c \in Callers : AddStoreObject(c)
    \/ \E c \in Callers : AddSetStatus(c)
    \/ \E c \in Callers : AddAppend(c)
    \/ \E c \in Callers : UseCall(c)
    \/ \E c \in Callers : UseScan(c)
    \/ \E c \in Callers : UseSetStatus(c)
    \/ \E c \in Callers : UseCut(c)
    \/ \E c \in Readers : GetAllUrlsCall(c)
    \/ \E c \in Readers, u \in TestUrls : CheckCall(c, u)
    \/ \E c \in Readers : CountCall(c)

SpecRegistrySteps == InitRegistry /\ [][RegistryStepsNext]_vars

-----------------------------------------------------------------------------
(* C34: the registry's consistency *)

\* the queue holds exactly the unused keys, each once, and the two maps have
\* the same keys
Consistent(us) ==
    /\ {us.queue[i] : i \in 1..Len(us.queue)} = Unused(us)
    /\ Len(us.queue) = Cardinality(Unused(us))
    /\ DOMAIN us.urlStatus = DOMAIN us.urlObjects

\* goroutine c gets an answer from getAllUrls, check or count in this step
Reads(c) == ret'[c] # ret[c] /\ ret'[c].op \in {"all", "check", "count"}

\* C34: the storage is consistent in every state in which no writer holds the
\* lock, in every state in which an add or a use starts to read it, and in
\* every step in which getAllUrls, check or count reads it; no caller sees a key
\* that is used but still queued, or unused but not queued
C34_RegistryConsistent ==
    /\ [](mu.w = {} => Consistent(urlStorage))
    /\ [](\A c \in Callers :
             caller[c].pc \in {"add_check", "use_scan"} => Consistent(urlStorage))
    /\ [][\A c \in Callers : Reads(c) => Consistent(urlStorage)]_vars

\* a use is between its two writes: the key is used and still queued
UsedButQueued ==
    \E c \in Callers :
        /\ caller[c].pc = "use_cut"
        /\ urlStorage.urlStatus[caller[c].key]
        /\ \E i \in 1..Len(urlStorage.queue) : urlStorage.queue[i] = caller[c].key

\* an add is between its writes: the key is unused and not queued
UnusedNotQueued ==
    \E c \in Callers :
        /\ caller[c].pc = "add_append"
        /\ ~urlStorage.urlStatus[caller[c].key]
        /\ \A i \in 1..Len(urlStorage.queue) : urlStorage.queue[i] # caller[c].key

\* C34: a use is between its two writes while another caller, who has read the
\* storage before, waits for the lock
C34_Witness ==
    /\ UsedButQueued
    /\ ~Consistent(urlStorage)
    /\ \E c \in Readers : ret[c].op \in {"all", "check", "count"}

-----------------------------------------------------------------------------
(* C35: the host filter compares hostname and port *)

\* u.Host: the hostname with the port
Host(u) == u.Hostname \o (IF u.Port = "" THEN "" ELSE ":" \o u.Port)

\* C35: crawl expands an acquired URL only when its host, hostname and port
\* together, is the start URL's: no goroutine runs harv on a URL of another
\* port, and no GET of one was made
C35_ExactHostMatch ==
    /\ \A w \in workers : Host(w.u) = Host(engine.url)
    /\ (main.pc = "send" => Host(main.urlBase) = Host(engine.url))
    /\ \A u \in getAllUrls(urlStorage) :
          Host(u) # Host(engine.url) => String(u) \notin DOMAIN harvCount

\* what the code does: the page on port 8080 was expanded, its link is stored
OtherPortExpanded ==
    /\ engine.url = PortRoot
    /\ String(PortAlt) \in DOMAIN harvCount
    /\ PortDoc \in getAllUrls(urlStorage)

-----------------------------------------------------------------------------
(* C36: analyser covers the whole registry *)

\* the keys analyser has still to examine or has examined: the rest of its
\* range, the goroutines that wait for the mutex, and the examined ones
Covered ==
    {String(u) : u \in main.snapshot}
        \cup {String(a.u) : a \in {b \in analysers : b.pc = "lock"}}
        \cup analysis.examined

\* the stored URLs that have the suffix of a requested type
RequestedDocs ==
    {u \in Entries : \E t \in Requested : HasSuffix(String(u), "." \o t)}

\* C36: analyser's range is every entry the storage holds when the phase
\* starts, used or not, of any host and scheme; none of them is dropped on
\* the way, all of them have been examined when analyser returns, and each one
\* that has the suffix of a requested type has got its Do call, the off-host
\* one that was never expanded too
C36_AnalysisCoversRegistry ==
    /\ [][main.pc = "crawl_done" /\ main'.pc = "analyser" =>
             main'.snapshot = Entries]_vars
    /\ [][main.pc = "analyser" => Covered' = Covered]_vars
    /\ [](AnalyserReturned =>
             /\ analysis.examined = Covered
             /\ \A u \in RequestedDocs :
                   String(u) \in analysis.examined => Len(DoLog(String(u))) = 1)

\* C36: analyser has returned; it has called Do for the off-host pdf, which was
\* acquired and never fetched by harv, and for the pdf of the ftp scheme
C36_Witness ==
    /\ AnalyserReturned
    /\ Ext \in Acquired /\ String(Ext) \notin DOMAIN harvCount
    /\ DoLog(String(Ext)) = <<[t |-> "pdf", ok |-> TRUE]>>
    /\ DoLog(String(Ftp)) = <<[t |-> "pdf", ok |-> FALSE]>>
    /\ Hostname(Ext) # Hostname(engine.url)

\* analyser has examined an entry that crawl never acquired
UnusedExamined ==
    /\ AnalyserReturned
    /\ \E k \in analysis.examined :
          k \in DOMAIN urlStorage.urlStatus /\ ~urlStorage.urlStatus[k]

-----------------------------------------------------------------------------
(* C37: no temporary file is left behind *)

\* the temporary file of the call is closed and removed (or was never created)
NoFileLeft == ~call.tmp.exists /\ ~call.tmp.open

\* C37: after readCloserToReadSeekerFile returns an error, and after Do
\* returns, with nil or with any error, the temporary file of that document is
\* closed and removed
C37_NoTempFileLeft ==
    /\ call.fn = "readCloserToReadSeekerFile" /\ call.pc = "done" /\ call.err # ""
          => NoFileLeft
    /\ call.fn = "Do" /\ call.pc = "done" => NoFileLeft

\* what the code does: the file is gone after every error of
\* readCloserToReadSeekerFile and after a Do that returns nil or fails before
\* it reads the document; a Do whose document does not parse leaves it, open
FileLeftOnParseError ==
    /\ call.fn = "readCloserToReadSeekerFile" /\ call.pc = "done" /\ call.err # ""
          => NoFileLeft
    /\ call.fn = "Do" /\ call.pc = "done" =>
          (NoFileLeft <=> call.err # "parse")

\* Do has returned a parse error for a pdf that was downloaded whole
ParseErrorAfterDownload ==
    /\ call.fn = "Do" /\ call.pc = "done" /\ call.t = "pdf"
    /\ call.err = "parse"
    /\ call.tmp.exists /\ call.tmp.open /\ call.tmp.size = call.size

-----------------------------------------------------------------------------
(* C38: the concurrency ceiling is validated *)

\* crawl waits for a slot that nobody will free: no goroutine holds one
CrawlBlockedForever ==
    main.pc = "send" /\ ~CanSend(crawlGuard, engine.paramax) /\ workers = {}

\* analyser waits for a slot that nobody will free
AnalyserBlockedForever ==
    /\ main.pc = "analyser" /\ main.snapshot # {}
    /\ ~CanSend(analyserGuard, engine.paramax) /\ analysers = {}

\* make(chan bool, paramax) has panicked
GuardPanicked == main.pc = "panic"

\* C38: newEngine refuses a ceiling P <= 0 before any work starts, so work is
\* done with a positive P only; crawl and analyser never wait forever for a
\* slot, and creating the guard never panics
C38_CeilingValidated ==
    /\ Activity => engine.paramax >= 1
    /\ ~CrawlBlockedForever
    /\ ~AnalyserBlockedForever
    /\ ~GuardPanicked

\* what the code does with P = 0: the first page was fetched, its first link
\* was acquired and crawl waits forever to send on the unbuffered guard
ZeroCeilingBlocksCrawl ==
    /\ engine.paramax = 0
    /\ CrawlBlockedForever
    /\ String(E2eRoot) \in fetched

\* a positive ceiling never blocks and never panics
PositiveCeilingWorks ==
    engine.paramax >= 1 =>
        ~CrawlBlockedForever /\ ~AnalyserBlockedForever /\ ~GuardPanicked

=============================================================================
